---- MODULE Spec2Model ----
(***************************************************************************)
(* Chat session lifecycle, stream reconciliation and title scheduling of   *)
(* the NeuraMorphosis chat client.                                         *)
(*                                                                         *)
(* The repository holds two variants of the App component:                 *)
(*   build = "proxy"   : src/unnamed/part_002 with the fetch based service *)
(*                       of src/unnamed/part_004 (history resent per turn) *)
(*   build = "session" : src/unnamed/part_001 lines 455-1186 with the SDK  *)
(*                       chat session of src/services/geminiService.ts     *)
(* Both are modelled; the variant is fixed at start-up.                    *)
(*                                                                         *)
(* Texts are sequences of characters; the fixed tail of the welcome text,  *)
(* which the code never looks into, is kept in whole pieces.  A React      *)
(* handler runs on the state of the render it was created in: an           *)
(* asynchronous handler                                                    *)
(* keeps the values it captured when it was invoked (its closure), so each *)
(* turn in flight and each armed timer carries its captured values.        *)
(***************************************************************************)
EXTENDS Integers, Sequences, FiniteSets, TLC

VARIABLES
  build,                    \* which App variant runs
  clock,                    \* last value Date.now() handed out as an id
  messages,                 \* useState messages (displayed list)
  isLoading,                \* useState isLoading
  isTitleLoading,           \* useState isTitleLoading
  error,                    \* useState error (banner), Null when null
  currentChatId,            \* useState currentChatId, 0 when null
  allChats,                 \* useState allChats
  thinkingBudget,           \* useState thinkingBudget
  currentChatModel,         \* useState currentChatModel
  appInitialWelcomeTextRef, \* useRef appInitialWelcomeTextRef
  titleUpdateQueue,         \* useRef titleUpdateQueue, NoJob when null
  titleUpdateTimeout,       \* useRef titleUpdateTimeout, NoTimer when null
  timers,                   \* window timers armed and not yet fired
  titleCalls,               \* generateChatTitleWithAI calls awaiting the backend
  turns,                    \* handleSendMessage invocations awaiting their stream
  chatSessionInstance,      \* geminiService module variable, NoSession when null
  createCount,              \* number of ai.chats.create calls (saturating)
  followUp,                 \* state of the summary editor's handleAskFollowUp
  service                   \* last direct call of a service function and its result

vars == <<build, clock, messages, isLoading, isTitleLoading, error,
          currentChatId, allChats, thinkingBudget, currentChatModel,
          appInitialWelcomeTextRef, titleUpdateQueue, titleUpdateTimeout,
          timers, titleCalls, turns, chatSessionInstance,
          createCount, followUp, service>>

(***************************************************************************)
(* Bounds of the model                                                     *)
(***************************************************************************)
MaxClock == 3      \* ids handed out by Date.now(): new chats plus sends
MaxChunks == 2     \* chunks one stream delivers before it ends or fails
MaxCreate == 3     \* createCount stops counting here

(***************************************************************************)
(* Text helpers                                                            *)
(***************************************************************************)
Null == <<"<null>">>

Whitespace == {" ", "\n"}

IsBlank(s) == \A i \in 1..Len(s) : s[i] \in Whitespace

StartsWith(s, p) == Len(s) >= Len(p) /\ SubSeq(s, 1, Len(p)) = p

RECURSIVE TrimStart(_)
TrimStart(s) ==
  IF s # <<>> /\ Head(s) \in Whitespace THEN TrimStart(Tail(s)) ELSE s

RECURSIVE TrimEnd(_)
TrimEnd(s) ==
  IF s # <<>> /\ s[Len(s)] \in Whitespace
  THEN TrimEnd(SubSeq(s, 1, Len(s) - 1)) ELSE s

Trim(s) == TrimEnd(TrimStart(s))

RECURSIVE Flatten(_)
Flatten(ss) == IF ss = <<>> THEN <<>> ELSE Head(ss) \o Flatten(Tail(ss))

Map(f(_), s) == [i \in 1..Len(s) |-> f(s[i])]

(***************************************************************************)
(* Program constants                                                       *)
(***************************************************************************)
INITIAL_AI_WELCOME_TEXT_BASE ==
  <<"H", "e", "l", "l", "o", "!", " ", "I", "'", "m", " ",
   "N", "e", "u", "r", "a", "M", "o", "r", "p", "h", "o", "s", "i", "s", " ", "A", "I", ".">>

NEW_CHAT == <<"N", "e", "w", " ", "C", "h", "a", "t">>

TITLE_UPDATE_MESSAGE_THRESHOLD == 3

DEFAULT_CHAT_MODEL == "gemini-2.5-flash"

AVAILABLE_CHAT_MODELS ==
  {"gemini-2.5-flash", "gemini-2.5-pro", "gemini-2.5-flash-lite"}

THINKING_CONFIG_SUPPORTED_MODELS == {"gemini-2.5-flash"}

MODEL_FRIENDLY_NAMES ==
  [modelId \in AVAILABLE_CHAT_MODELS |->
     CASE modelId = "gemini-2.5-flash" -> "Flash (Fast & Efficient)"
       [] modelId = "gemini-2.5-pro" -> "Pro (Advanced & Powerful)"
       [] modelId = "gemini-2.5-flash-lite" -> "Flash Lite (Ultra Fast)"]

getFriendlyModelName(modelId) ==
  IF modelId \in DOMAIN MODEL_FRIENDLY_NAMES
  THEN MODEL_FRIENDLY_NAMES[modelId] ELSE modelId

\* the template literal; the parts after the base text are never looked
\* into by the code and are kept whole
createAppInitialWelcomeText(modelIdForWelcome) ==
  INITIAL_AI_WELCOME_TEXT_BASE
    \o <<" You are currently the '", getFriendlyModelName(modelIdForWelcome),
         "' model. How can I help you today? You can use **Markdown** for *formatting*! \n\nI am a text-based assistant.">>

NoThinking ==
  [supported |-> FALSE, enabled |-> FALSE, budget |-> 0, modelUsed |-> "none"]

createNewWelcomeMessage(modelIdForWelcome, now) ==
  [id |-> <<"ai-welcome", now>>,
   text |-> createAppInitialWelcomeText(modelIdForWelcome),
   sender |-> "ai", isStreaming |-> FALSE, isError |-> FALSE,
   thinkingDetails |-> NoThinking]

IsWelcome(msg) ==
  msg.sender = "ai" /\ StartsWith(msg.text, INITIAL_AI_WELCOME_TEXT_BASE)

(***************************************************************************)
(* History sent to the backend                                             *)
(***************************************************************************)
HistoryItem(msg) ==
  [role |-> IF msg.sender = "user" THEN "user" ELSE "model",
   parts |-> <<msg.text>>]

\* part_002: the welcome message and blank texts are skipped
mapMessagesToGeminiHistoryProxy(msgs) ==
  Map(HistoryItem,
      SelectSeq(msgs, LAMBDA msg : ~IsWelcome(msg) /\ ~IsBlank(msg.text)))

\* part_001: only blank texts are skipped; the filtering parameter is unused
mapMessagesToGeminiHistorySession(msgs) ==
  Map(HistoryItem, SelectSeq(msgs, LAMBDA msg : ~IsBlank(msg.text)))

mapMessagesToGeminiHistory(msgs) ==
  IF build = "proxy" THEN mapMessagesToGeminiHistoryProxy(msgs)
  ELSE mapMessagesToGeminiHistorySession(msgs)

\* the whole array kept
SliceDropLast_KeepsAll(s) == s

\* Array.prototype.slice(0, -1)
SliceDropLast(s) == IF s = <<>> THEN <<>> ELSE SubSeq(s, 1, Len(s) - 1)

(***************************************************************************)
(* Backend gateway                                                         *)
(***************************************************************************)
\* chatConfig.thinkingConfig is optional: absent, or one record
NoThinkingConfig == <<>>

ThinkingConfig(budget) == <<[thinkingBudget |-> budget]>>

NoSession ==
  [live |-> FALSE, model |-> "none", history |-> <<>>,
   thinkingConfig |-> NoThinkingConfig]

\* the thinking configuration attached whatever the model
initializeChatSession_ConfigForEveryModel(modelName, history, thinkingBudgetUiValue) ==
  LET currentModelToUse ==
        IF modelName \in AVAILABLE_CHAT_MODELS THEN modelName
        ELSE DEFAULT_CHAT_MODEL
  IN [live |-> TRUE, model |-> currentModelToUse, history |-> history,
      thinkingConfig |-> ThinkingConfig(thinkingBudgetUiValue)]

\* geminiService.ts initializeChatSession: the Chat object ai.chats.create returns
initializeChatSession(modelName, history, thinkingBudgetUiValue) ==
  LET currentModelToUse ==
        IF modelName \in AVAILABLE_CHAT_MODELS THEN modelName
        ELSE DEFAULT_CHAT_MODEL
  IN [live |-> TRUE, model |-> currentModelToUse, history |-> history,
      thinkingConfig |-> IF currentModelToUse = "gemini-2.5-flash"
                         THEN ThinkingConfig(thinkingBudgetUiValue)
                         ELSE NoThinkingConfig]

\* part_004 sendMessageToChatStream: the body posted to /api/proxy
ProxyChatRequest(message, history, model, budget) ==
  [live |-> TRUE, model |-> model, history |-> history,
   thinkingConfig |-> IF model = "gemini-2.5-flash"
                      THEN ThinkingConfig(budget) ELSE NoThinkingConfig]

Bump(n, max) == IF n < max THEN n + 1 ELSE n

(***************************************************************************)
(* Conversation store helpers                                              *)
(***************************************************************************)
ChatIds(chats) == {chats[i].id : i \in 1..Len(chats)}

\* Array.prototype.find by id: the first match
FindChat(chats, id) ==
  chats[CHOOSE i \in 1..Len(chats) :
          chats[i].id = id /\ \A j \in 1..(i - 1) : chats[j].id # id]

MapMessage(msgs, id, f(_)) ==
  [i \in 1..Len(msgs) |-> IF msgs[i].id = id THEN f(msgs[i]) ELSE msgs[i]]

MapChat(chats, id, f(_)) ==
  [i \in 1..Len(chats) |-> IF chats[i].id = id THEN f(chats[i]) ELSE chats[i]]

isEffectivelyNewChat ==
  IF build = "proxy"
  THEN /\ Len(messages) <= 1
       /\ (Len(messages) = 0 \/ IsWelcome(messages[1]))
       /\ ~isLoading
  ELSE /\ Len(messages) = 1
       /\ messages[1].sender = "ai"
       /\ messages[1].text = appInitialWelcomeTextRef
       /\ ~isLoading

WelcomeRefFor(msgs, model) ==
  IF Len(msgs) > 0 /\ IsWelcome(msgs[1]) THEN msgs[1].text
  ELSE createAppInitialWelcomeText(model)

(***************************************************************************)
(* Session effect of the session build (part_001 lines 713-737): it runs   *)
(* after every render in which the model, the budget, the chat id or the   *)
(* reinitializeChatForCurrentSettings callback (which depends on messages) *)
(* changed.  sess and cnt are the values the handler itself left behind.   *)
(***************************************************************************)
reinitializeChatForCurrentSettings(sess, cnt, newMessagesArray) ==
  IF /\ build = "session"
     /\ \/ newMessagesArray
        \/ messages' # messages
        \/ currentChatModel' # currentChatModel
        \/ thinkingBudget' # thinkingBudget
        \/ currentChatId' # currentChatId
  THEN IF currentChatId' # 0 /\ Len(messages') > 0
       THEN /\ chatSessionInstance' =
                 initializeChatSession(currentChatModel',
                     mapMessagesToGeminiHistory(messages'), thinkingBudget')
            /\ createCount' = Bump(cnt, MaxCreate)
       ELSE /\ chatSessionInstance' =
                 IF currentChatId' # 0 THEN NoSession ELSE sess
            /\ createCount' = cnt
  ELSE /\ chatSessionInstance' = sess
       /\ createCount' = cnt

resetChatSession == NoSession

(***************************************************************************)
(* Title scheduler                                                         *)
(***************************************************************************)
NoJob == [id |-> 0, isNew |-> FALSE, messagesForContext |-> <<>>]

NoTimer == <<0, "none">>

\* scheduleTitleUpdate without the clearTimeout of the pending timer
scheduleTitleUpdate_KeepsOldTimer(cChatId, cMessages, cAllChats, chatIdToUpdate, isNewChat, tid) ==
  LET messagesForContext ==
        IF chatIdToUpdate = cChatId THEN cMessages
        ELSE IF chatIdToUpdate \in ChatIds(cAllChats)
             THEN FindChat(cAllChats, chatIdToUpdate).messages ELSE <<>>
  IN IF Len(messagesForContext) = 0 /\ ~isNewChat
     THEN UNCHANGED <<titleUpdateQueue, titleUpdateTimeout, timers>>
     ELSE /\ titleUpdateQueue' = [id |-> chatIdToUpdate, isNew |-> isNewChat,
                                  messagesForContext |-> messagesForContext]
          /\ timers' = timers \cup {[tid |-> tid, chatId |-> cChatId]}
          /\ titleUpdateTimeout' = tid

\* scheduleTitleUpdate as created in the render whose state was
\* (cChatId, cMessages, cAllChats); tid names the timer setTimeout returns
scheduleTitleUpdate(cChatId, cMessages, cAllChats, chatIdToUpdate, isNewChat, tid) ==
  LET messagesForContext ==
        IF chatIdToUpdate = cChatId THEN cMessages
        ELSE IF chatIdToUpdate \in ChatIds(cAllChats)
             THEN FindChat(cAllChats, chatIdToUpdate).messages ELSE <<>>
  IN IF Len(messagesForContext) = 0 /\ ~isNewChat
     THEN UNCHANGED <<titleUpdateQueue, titleUpdateTimeout, timers>>
     ELSE /\ titleUpdateQueue' = [id |-> chatIdToUpdate, isNew |-> isNewChat,
                                  messagesForContext |-> messagesForContext]
          /\ timers' = {x \in timers : x.tid # titleUpdateTimeout}
                         \cup {[tid |-> tid, chatId |-> cChatId]}
          /\ titleUpdateTimeout' = tid

(***************************************************************************)
(* Conversation store operations                                           *)
(***************************************************************************)
TitleVars == <<titleUpdateQueue, titleUpdateTimeout, timers, titleCalls,
               isTitleLoading>>

\* startNewChat, with prevChats the value setAllChats' updater receives
StartNewChatFrom(prevChats, now, model) ==
  LET welcomeMessage == createNewWelcomeMessage(model, now)
      newChat == [id |-> now, title |-> NEW_CHAT,
                  messages |-> <<welcomeMessage>>,
                  aiMessagesSinceLastTitleUpdate |-> 0]
  IN /\ clock' = now
     /\ appInitialWelcomeTextRef' = createAppInitialWelcomeText(model)
     /\ messages' = <<welcomeMessage>>
     /\ currentChatId' = now
     /\ allChats' = <<newChat>> \o SelectSeq(prevChats, LAMBDA c : c.id # now)
     /\ error' = Null
     /\ isLoading' = FALSE

startNewChat ==
  /\ clock < MaxClock
  /\ UNCHANGED <<build, thinkingBudget, currentChatModel, TitleVars, turns>>
  /\ StartNewChatFrom(allChats, clock + 1, currentChatModel)
  /\ reinitializeChatForCurrentSettings(
        IF build = "session" THEN resetChatSession ELSE chatSessionInstance,
        createCount, FALSE)

\* the state setters of switchChat, for a chat found in chats
SwitchChatTo(chats, chatId, model) ==
  LET chatToLoad == FindChat(chats, chatId)
  IN /\ messages' = chatToLoad.messages
     /\ currentChatId' = chatId
     /\ appInitialWelcomeTextRef' =
          WelcomeRefFor(chatToLoad.messages, model)
     /\ error' = Null
     /\ isLoading' = FALSE

switchChat(chatId) ==
  /\ UNCHANGED <<build, clock, allChats, thinkingBudget, currentChatModel,
                 TitleVars, turns>>
  /\ IF chatId \in ChatIds(allChats)
     THEN /\ SwitchChatTo(allChats, chatId, currentChatModel)
          /\ reinitializeChatForCurrentSettings(chatSessionInstance, createCount, FALSE)
     ELSE UNCHANGED <<messages, currentChatId, appInitialWelcomeTextRef, error,
                      isLoading, chatSessionInstance, createCount>>

\* the chat removed and the active conversation left as it is
deleteChat_KeepsActiveId(chatIdToDelete) ==
  LET updatedChats == SelectSeq(allChats, LAMBDA c : c.id # chatIdToDelete)
  IN /\ UNCHANGED <<build, thinkingBudget, currentChatModel, TitleVars, turns>>
     /\ allChats' = updatedChats
     /\ UNCHANGED <<clock, messages, currentChatId,
                    appInitialWelcomeTextRef, error, isLoading,
                    chatSessionInstance, createCount>>

deleteChat(chatIdToDelete) ==
  LET updatedChats == SelectSeq(allChats, LAMBDA c : c.id # chatIdToDelete)
  IN /\ UNCHANGED <<build, thinkingBudget, currentChatModel, TitleVars, turns>>
     /\ IF currentChatId = chatIdToDelete
        THEN IF Len(updatedChats) > 0
             THEN /\ allChats' = updatedChats
                  /\ SwitchChatTo(allChats, updatedChats[1].id, currentChatModel)
                  /\ clock' = clock
                  /\ reinitializeChatForCurrentSettings(chatSessionInstance,
                                                        createCount, FALSE)
             ELSE /\ clock < MaxClock
                  /\ StartNewChatFrom(updatedChats, clock + 1, currentChatModel)
                  /\ reinitializeChatForCurrentSettings(
                        IF build = "session" THEN resetChatSession
                        ELSE chatSessionInstance, createCount, FALSE)
        ELSE /\ allChats' = updatedChats
             /\ UNCHANGED <<clock, messages, currentChatId,
                            appInitialWelcomeTextRef, error, isLoading,
                            chatSessionInstance, createCount>>

(***************************************************************************)
(* Title generation (services)                                             *)
(***************************************************************************)
ELLIPSIS == <<".", ".", ".">>

CHAT_CONVERSATION == <<"C", "h", "a", "t", " ", "C", "o", "n", "v", "e", "r", "s", "a", "t", "i", "o", "n">>

TITLE_PREFIX == <<"t", "i", "t", "l", "e", ":">>

VIEWING_IMAGE_PREFIX == <<"A", "I", " ", "i", "s", " ", "v", "i", "e", "w", "i", "n", "g", " ", "t", "h", "e", " ", "i", "m", "a", "g", "e">>

THINKING_DEEPLY_PREFIX == <<"N", "e", "u", "r", "a", "M", "o", "r", "p", "h", "o", "s", "i", "s", " ", "A", "I", " ", "i", "s", " ", "t", "h", "i", "n", "k", "i", "n", "g", " ", "d", "e", "e", "p", "l", "y", ".", ".", ".">>

Quotes == {"\"", "'"}

UpperCase == {"T", "I", "L", "E", "X"}

ToLowerChar(c) ==
  CASE c = "T" -> "t" [] c = "I" -> "i" [] c = "L" -> "l"
    [] c = "E" -> "e" [] c = "X" -> "x" [] OTHER -> c

ToLowerCase(s) == [i \in 1..Len(s) |-> ToLowerChar(s[i])]

\* String.prototype.split(' ')
RECURSIVE SplitSpace(_)
SplitSpace(s) ==
  IF \A i \in 1..Len(s) : s[i] # " " THEN <<s>>
  ELSE LET i == CHOOSE k \in 1..Len(s) :
                  s[k] = " " /\ \A j \in 1..(k - 1) : s[j] # " "
       IN <<SubSeq(s, 1, i - 1)>> \o SplitSpace(SubSeq(s, i + 1, Len(s)))

\* Array.prototype.join(' ')
RECURSIVE JoinSpace(_)
JoinSpace(ws) ==
  IF ws = <<>> THEN <<>>
  ELSE IF Len(ws) = 1 THEN ws[1]
  ELSE ws[1] \o <<" ">> \o JoinSpace(Tail(ws))

Take(s, n) == SubSeq(s, 1, IF n < Len(s) THEN n ELSE Len(s))

mapAppMessagesToGeminiHistoryForTitle(msgs, initialWelcomeTextBase) ==
  Map(HistoryItem,
      SelectSeq(msgs, LAMBDA msg :
         \/ msg.sender = "user"
         \/ /\ msg.sender = "ai"
            /\ ~StartsWith(msg.text, VIEWING_IMAGE_PREFIX)
            /\ ~StartsWith(msg.text, THINKING_DEEPLY_PREFIX)
            /\ ~StartsWith(msg.text, initialWelcomeTextBase)))

\* the fallback title cut after three words
generateFallbackTitle_ThreeWords(chatMessages) ==
  LET users == SelectSeq(chatMessages, LAMBDA msg : msg.sender = "user")
  IN IF users # <<>> /\ users[1].text # <<>>
     THEN LET words == SplitSpace(Trim(users[1].text))
          IN JoinSpace(Take(words, 3))
               \o (IF Len(words) > 3 THEN ELLIPSIS ELSE <<>>)
     ELSE CHAT_CONVERSATION

generateFallbackTitle(chatMessages) ==
  LET users == SelectSeq(chatMessages, LAMBDA msg : msg.sender = "user")
  IN IF users # <<>> /\ users[1].text # <<>>
     THEN LET words == SplitSpace(Trim(users[1].text))
          IN JoinSpace(Take(words, 4))
               \o (IF Len(words) > 4 THEN ELLIPSIS ELSE <<>>)
     ELSE CHAT_CONVERSATION

\* replace(/^["']|["']$/g, '')
StripQuotes(s) ==
  LET a == IF s # <<>> /\ Head(s) \in Quotes THEN Tail(s) ELSE s
  IN IF a # <<>> /\ a[Len(a)] \in Quotes THEN SubSeq(a, 1, Len(a) - 1) ELSE a

\* the cleaning of a non-blank response text
CleanTitle(responseText) ==
  LET c1 == StripQuotes(Trim(responseText))
      c2 == IF StartsWith(ToLowerCase(c1), TITLE_PREFIX)
            THEN Trim(SubSeq(c1, Len(TITLE_PREFIX) + 1, Len(c1))) ELSE c1
      wordsInTitle == SplitSpace(c2)
  IN IF Len(wordsInTitle) > 7
     THEN JoinSpace(Take(wordsInTitle, 7)) \o ELLIPSIS ELSE c2

\* generateChatTitleWithAI needs the backend unless it returns early
TitleNeedsRequest(chatMessages) ==
  /\ Len(chatMessages) > 0
  /\ mapAppMessagesToGeminiHistoryForTitle(chatMessages,
        INITIAL_AI_WELCOME_TEXT_BASE) # <<>>

\* the cleaned response text returned even when nothing is left of it
generateChatTitleWithAI_KeepsEmptyTitle(chatMessages, outcome) ==
  IF Len(chatMessages) = 0 THEN NEW_CHAT
  ELSE IF ~TitleNeedsRequest(chatMessages)
       THEN generateFallbackTitle(chatMessages)
  ELSE IF outcome.ok /\ ~IsBlank(outcome.text)
       THEN CleanTitle(outcome.text)
  ELSE generateFallbackTitle(chatMessages)

\* generateChatTitleWithAI: outcome is what the backend call produced
generateChatTitleWithAI(chatMessages, outcome) ==
  IF Len(chatMessages) = 0 THEN NEW_CHAT
  ELSE IF ~TitleNeedsRequest(chatMessages)
       THEN generateFallbackTitle(chatMessages)
  ELSE IF outcome.ok /\ ~IsBlank(outcome.text)
       THEN IF CleanTitle(outcome.text) = <<>>
            THEN generateFallbackTitle(chatMessages)
            ELSE CleanTitle(outcome.text)
  ELSE generateFallbackTitle(chatMessages)

(***************************************************************************)
(* A chat turn: handleSendMessage and the events of its stream             *)
(***************************************************************************)
InputTexts == {<<"h">>, <<" ">>}

\* the texts of the successive chunks of a response stream; the code only
\* concatenates them, so one stream with two different texts shows their order
StreamTexts == <<<<"a", "b">>, <<"c">>>>

Chunks == {StreamTexts[k] : k \in 1..Len(StreamTexts)}

\* the chunk a stream delivers after those in received
NextChunk(received) == StreamTexts[(Len(received) % Len(StreamTexts)) + 1]

ErrorMessages == {<<>>, <<"x">>}

ERROR_PREFIX == <<"E", "r", "r", "o", "r", ":", " ">>

FAILED_TO_GET_RESPONSE == <<"F", "a", "i", "l", "e", "d", " ", "t", "o", " ", "g", "e", "t", " ", "r", "e", "s", "p", "o", "n", "s", "e", " ", "f", "r", "o", "m", " ", "A", "I", ".">>

\* `Error: ${e.message || "Failed to get response from AI."}`
ErrorText(eMessage) ==
  ERROR_PREFIX \o (IF eMessage # <<>> THEN eMessage ELSE FAILED_TO_GET_RESPONSE)

ThinkingDetailsFor(model, budget) ==
  IF model \in THINKING_CONFIG_SUPPORTED_MODELS
  THEN [supported |-> TRUE, enabled |-> budget > 0, budget |-> budget,
        modelUsed |-> model]
  ELSE NoThinking

BaseMessagesForThisTurn ==
  IF build = "proxy"
  THEN IF isEffectivelyNewChat THEN <<>> ELSE messages
  ELSE IF /\ Len(messages) = 1
          /\ messages[1].sender = "ai"
          /\ messages[1].text = appInitialWelcomeTextRef
       THEN <<>> ELSE messages

\* whether the first-message title job is scheduled by handleSendMessage
SchedulesNewChatTitle(base) ==
  /\ currentChatId # 0
  /\ IF build = "proxy" THEN isEffectivelyNewChat
     ELSE /\ currentChatId \in ChatIds(allChats)
          /\ FindChat(allChats, currentChatId).title = NEW_CHAT
          /\ Len(base) = 0

\* the early return without the isLoading test
SendRejected_IgnoresLoading(inputText) == IsBlank(inputText)

\* the early return of handleSendMessage
SendRejected(inputText) == IsBlank(inputText) \/ isLoading

handleSendMessage(inputText) ==
  /\ IF SendRejected(inputText)
     THEN UNCHANGED <<build, clock, messages, isLoading, error, currentChatId,
                      allChats, thinkingBudget, currentChatModel,
                      appInitialWelcomeTextRef, TitleVars, turns,
                      chatSessionInstance, createCount>>
     ELSE
       LET now == clock + 1
           userMessage == [id |-> <<"user", now>>, text |-> inputText,
                           sender |-> "user", isStreaming |-> FALSE,
                           isError |-> FALSE, thinkingDetails |-> NoThinking]
           baseMessagesForThisTurn == BaseMessagesForThisTurn
           updatedMessagesWithUser == baseMessagesForThisTurn \o <<userMessage>>
           thinkingDetailsForMessage ==
             ThinkingDetailsFor(currentChatModel, thinkingBudget)
           aiMessage == [id |-> <<"ai", now>>, text |-> <<>>, sender |-> "ai",
                         isStreaming |-> TRUE, isError |-> FALSE,
                         thinkingDetails |-> thinkingDetailsForMessage]
           historyForSession ==
             IF build = "session" /\ Len(baseMessagesForThisTurn) = 0
             THEN mapMessagesToGeminiHistory(baseMessagesForThisTurn)
             ELSE SliceDropLast(mapMessagesToGeminiHistory(updatedMessagesWithUser))
           request ==
             IF build = "proxy"
             THEN ProxyChatRequest(inputText, historyForSession,
                                   currentChatModel, thinkingBudget)
             ELSE initializeChatSession(currentChatModel, historyForSession,
                                        thinkingBudget)
       IN /\ clock < MaxClock
          /\ clock' = now
          /\ error' = Null
          /\ isLoading' = TRUE
          /\ messages' = updatedMessagesWithUser \o <<aiMessage>>
          /\ allChats' =
               IF currentChatId # 0
               THEN MapChat(allChats, currentChatId,
                      LAMBDA chat : [chat EXCEPT !.messages = updatedMessagesWithUser])
               ELSE allChats
          /\ IF SchedulesNewChatTitle(baseMessagesForThisTurn)
             THEN scheduleTitleUpdate(currentChatId, messages, allChats,
                                      currentChatId, TRUE, <<now, "new">>)
             ELSE UNCHANGED <<titleUpdateQueue, titleUpdateTimeout, timers>>
          /\ turns' = turns \cup
               {[id |-> now, chatId |-> currentChatId, message |-> inputText,
                 updatedMessagesWithUser |-> updatedMessagesWithUser,
                 closureMessages |-> messages,
                 thinkingDetails |-> thinkingDetailsForMessage,
                 accumulatedRegularText |-> <<>>, chunks |-> <<>>,
                 request |-> request]}
          /\ UNCHANGED <<build, currentChatId, thinkingBudget, currentChatModel,
                         appInitialWelcomeTextRef, titleCalls, isTitleLoading>>
          /\ reinitializeChatForCurrentSettings(
                IF build = "session" THEN request ELSE chatSessionInstance,
                IF build = "session" THEN Bump(createCount, MaxCreate)
                ELSE createCount, TRUE)

AiId(t) == <<"ai", t.id>>

\* one chunk of the stream of turn t: the body of the for-await loop
\* the chunk put in front of the text accumulated so far
Accumulate_Prepends(accumulatedRegularText, textContent) ==
  textContent \o accumulatedRegularText

\* accumulatedRegularText += textContent
Accumulate(accumulatedRegularText, textContent) ==
  accumulatedRegularText \o textContent

StreamChunk(t, textContent) ==
  LET acc == Accumulate(t.accumulatedRegularText, textContent)
  IN /\ t \in turns
     /\ Len(t.chunks) < MaxChunks
     /\ UNCHANGED <<build, clock, isLoading, error, currentChatId, allChats,
                    thinkingBudget, currentChatModel, appInitialWelcomeTextRef,
                    TitleVars>>
     /\ turns' = (turns \ {t}) \cup
          {[t EXCEPT !.accumulatedRegularText = acc,
                     !.chunks = Append(t.chunks, textContent)]}
     /\ messages' =
          IF textContent # <<>>
          THEN MapMessage(messages, AiId(t),
                 LAMBDA msg : IF build = "proxy" THEN [msg EXCEPT !.text = acc]
                              ELSE [msg EXCEPT !.text = acc, !.isStreaming = TRUE])
          ELSE messages
     /\ reinitializeChatForCurrentSettings(chatSessionInstance, createCount,
                                           textContent # <<>>)

\* the update applied when the stream is complete: the finally block of
\* part_002, the statement after the loop in part_001
StreamCompleteUpdate(msgs, t) ==
  MapMessage(msgs, AiId(t),
    LAMBDA msg : [msg EXCEPT !.text = t.accumulatedRegularText,
                             !.isStreaming = FALSE])

\* the final message left streaming
FinalAiMessage_StillStreaming(t) ==
  [id |-> AiId(t), text |-> t.accumulatedRegularText, sender |-> "ai",
   isStreaming |-> TRUE, isError |-> FALSE,
   thinkingDetails |-> t.thinkingDetails]

FinalAiMessage(t) ==
  [id |-> AiId(t), text |-> t.accumulatedRegularText, sender |-> "ai",
   isStreaming |-> FALSE, isError |-> FALSE,
   thinkingDetails |-> t.thinkingDetails]

\* the title update scheduled whatever the count
StreamEnd_ThresholdNotTested(t) ==
  LET finalAiMessage == FinalAiMessage(t)
      finalMessagesForStorage ==
        SelectSeq(t.updatedMessagesWithUser, LAMBDA m : m.id # AiId(t))
          \o <<finalAiMessage>>
      stored == t.chatId # 0 /\ t.chatId \in ChatIds(allChats)
      chat == FindChat(allChats, t.chatId)
      newAiMessageCount == chat.aiMessagesSinceLastTitleUpdate + 1
  IN /\ t \in turns
     /\ UNCHANGED <<build, clock, error, currentChatId, thinkingBudget,
                    currentChatModel, appInitialWelcomeTextRef, titleCalls,
                    isTitleLoading>>
     /\ turns' = turns \ {t}
     /\ messages' = MapMessage(StreamCompleteUpdate(messages, t), AiId(t),
                               LAMBDA msg : finalAiMessage)
     /\ allChats' =
          IF stored
          THEN MapChat(allChats, t.chatId,
                 LAMBDA c : [c EXCEPT !.messages = finalMessagesForStorage,
                                      !.aiMessagesSinceLastTitleUpdate =
                                          c.aiMessagesSinceLastTitleUpdate + 1])
          ELSE allChats
     /\ IF /\ stored
           /\ newAiMessageCount >= 1
           /\ chat.title # NEW_CHAT
        THEN scheduleTitleUpdate(t.chatId, t.closureMessages, allChats,
                                 t.chatId, FALSE, <<t.id, "end">>)
        ELSE UNCHANGED <<titleUpdateQueue, titleUpdateTimeout, timers>>
     /\ isLoading' = FALSE
     /\ reinitializeChatForCurrentSettings(chatSessionInstance, createCount, TRUE)

\* normal end of the stream of turn t
StreamEnd(t) ==
  LET finalAiMessage == FinalAiMessage(t)
      finalMessagesForStorage ==
        SelectSeq(t.updatedMessagesWithUser, LAMBDA m : m.id # AiId(t))
          \o <<finalAiMessage>>
      stored == t.chatId # 0 /\ t.chatId \in ChatIds(allChats)
      chat == FindChat(allChats, t.chatId)
      newAiMessageCount == chat.aiMessagesSinceLastTitleUpdate + 1
  IN /\ t \in turns
     /\ UNCHANGED <<build, clock, error, currentChatId, thinkingBudget,
                    currentChatModel, appInitialWelcomeTextRef, titleCalls,
                    isTitleLoading>>
     /\ turns' = turns \ {t}
     /\ messages' = MapMessage(StreamCompleteUpdate(messages, t), AiId(t),
                               LAMBDA msg : finalAiMessage)
     /\ allChats' =
          IF stored
          THEN MapChat(allChats, t.chatId,
                 LAMBDA c : [c EXCEPT !.messages = finalMessagesForStorage,
                                      !.aiMessagesSinceLastTitleUpdate =
                                          c.aiMessagesSinceLastTitleUpdate + 1])
          ELSE allChats
     /\ IF /\ stored
           /\ newAiMessageCount >= TITLE_UPDATE_MESSAGE_THRESHOLD
           /\ chat.title # NEW_CHAT
        THEN scheduleTitleUpdate(t.chatId, t.closureMessages, allChats,
                                 t.chatId, FALSE, <<t.id, "end">>)
        ELSE UNCHANGED <<titleUpdateQueue, titleUpdateTimeout, timers>>
     /\ isLoading' = FALSE
     /\ reinitializeChatForCurrentSettings(chatSessionInstance, createCount, TRUE)

\* the update of the catch block
StreamErrorUpdate(msgs, t, errorMessage) ==
  MapMessage(msgs, AiId(t),
    LAMBDA msg : [msg EXCEPT !.text = errorMessage, !.isError = TRUE,
                             !.isStreaming = FALSE])

\* opening the stream or reading it fails with e.message = eMessage
StreamError(t, eMessage) ==
  LET errorMessage == ErrorText(eMessage)
      caught == StreamErrorUpdate(messages, t, errorMessage)
  IN /\ t \in turns
     /\ UNCHANGED <<build, clock, currentChatId, allChats, thinkingBudget,
                    currentChatModel, appInitialWelcomeTextRef, TitleVars>>
     /\ turns' = turns \ {t}
     /\ error' = errorMessage
     /\ messages' = IF build = "proxy" THEN StreamCompleteUpdate(caught, t)
                    ELSE caught
     /\ isLoading' = FALSE
     /\ reinitializeChatForCurrentSettings(chatSessionInstance, createCount, TRUE)

(***************************************************************************)
(* Title job: the timer callback and the completion of the backend call    *)
(***************************************************************************)
TitleOutcomes ==
  {[ok |-> FALSE, text |-> <<>>],
   [ok |-> TRUE, text |-> <<"\"">>],
   [ok |-> TRUE, text |-> <<"\"", "X", "\"">>]}

\* every message counted, whoever sent it
HasUserMessage_AnySender(msgs) ==
  \E i \in 1..Len(msgs) : ~IsBlank(msgs[i].text)

HasUserMessage(msgs) ==
  \E i \in 1..Len(msgs) : msgs[i].sender = "user" /\ ~IsBlank(msgs[i].text)

\* processTitleUpdateQueue as created in a render whose currentChatId was
\* cChatId, up to its await
processTitleUpdateQueue(cChatId) ==
  IF titleUpdateQueue = NoJob
  THEN UNCHANGED <<titleUpdateQueue, allChats, titleCalls, isTitleLoading>>
  ELSE
    LET chatIdForTitle == titleUpdateQueue.id
        isNew == titleUpdateQueue.isNew
        messagesForContext == titleUpdateQueue.messagesForContext
    IN /\ titleUpdateQueue' = NoJob
       /\ IF chatIdForTitle # cChatId /\ ~isNew
          THEN UNCHANGED <<allChats, titleCalls, isTitleLoading>>
          ELSE IF /\ ~HasUserMessage(messagesForContext)
                  /\ \/ Len(messagesForContext) = 0
                     \/ /\ Len(messagesForContext) = 1
                        /\ StartsWith(messagesForContext[1].text,
                                      INITIAL_AI_WELCOME_TEXT_BASE)
          THEN /\ allChats' =
                    IF isNew
                    THEN MapChat(allChats, chatIdForTitle,
                                 LAMBDA c : [c EXCEPT !.title = NEW_CHAT])
                    ELSE allChats
               /\ UNCHANGED <<titleCalls, isTitleLoading>>
          ELSE /\ isTitleLoading' = TRUE
               /\ titleCalls' = titleCalls \cup
                    {[chatId |-> chatIdForTitle,
                      messagesForContext |-> messagesForContext,
                      request |-> TitleNeedsRequest(messagesForContext)]}
               /\ UNCHANGED allChats

\* the window timer tm fires
TimerFires(tm) ==
  /\ tm \in timers
  /\ timers' = timers \ {tm}
  /\ processTitleUpdateQueue(tm.chatId)
  /\ UNCHANGED <<build, clock, messages, isLoading, error, currentChatId,
                 thinkingBudget, currentChatModel, appInitialWelcomeTextRef,
                 titleUpdateTimeout, turns, chatSessionInstance, createCount>>

\* the conversation written back as the job saw it, with the new title
TitleResolved_WritesSnapshotBack(call, outcome) ==
  LET newTitle == generateChatTitleWithAI(call.messagesForContext, outcome)
  IN /\ call \in titleCalls
     /\ titleCalls' = titleCalls \ {call}
     /\ allChats' = MapChat(allChats, call.chatId,
          LAMBDA chat : [chat EXCEPT !.title = newTitle,
                                     !.messages = call.messagesForContext,
                                     !.aiMessagesSinceLastTitleUpdate = 0])
     /\ isTitleLoading' = FALSE
     /\ UNCHANGED <<build, clock, messages, isLoading, error, currentChatId,
                    thinkingBudget, currentChatModel, appInitialWelcomeTextRef,
                    titleUpdateQueue, titleUpdateTimeout, timers, turns,
                    chatSessionInstance, createCount>>

\* generateChatTitleWithAI resolves and processTitleUpdateQueue resumes
TitleResolved(call, outcome) ==
  LET newTitle == generateChatTitleWithAI(call.messagesForContext, outcome)
  IN /\ call \in titleCalls
     /\ titleCalls' = titleCalls \ {call}
     /\ allChats' = MapChat(allChats, call.chatId,
          LAMBDA chat : [chat EXCEPT !.title = newTitle,
                                     !.aiMessagesSinceLastTitleUpdate = 0])
     /\ isTitleLoading' = FALSE
     /\ UNCHANGED <<build, clock, messages, isLoading, error, currentChatId,
                    thinkingBudget, currentChatModel, appInitialWelcomeTextRef,
                    titleUpdateQueue, titleUpdateTimeout, timers, turns,
                    chatSessionInstance, createCount>>

(***************************************************************************)
(* Settings                                                                *)
(***************************************************************************)
ThinkingBudgets == {0, 3}

\* onSetModel, followed by the load effect that depends on currentChatModel:
\* it reloads the chats and the active chat that the save effects stored
setCurrentChatModel(model) ==
  /\ model # currentChatModel
  /\ UNCHANGED <<build, thinkingBudget, TitleVars, turns>>
  /\ currentChatModel' = model
  /\ IF currentChatId # 0 /\ currentChatId \in ChatIds(allChats)
     THEN /\ messages' = FindChat(allChats, currentChatId).messages
          /\ appInitialWelcomeTextRef' =
               WelcomeRefFor(FindChat(allChats, currentChatId).messages, model)
          /\ UNCHANGED <<clock, currentChatId, allChats, error, isLoading>>
          /\ reinitializeChatForCurrentSettings(chatSessionInstance,
                                                createCount, FALSE)
     ELSE /\ clock < MaxClock
          /\ StartNewChatFrom(allChats, clock + 1, model)
          /\ reinitializeChatForCurrentSettings(
                IF build = "session" THEN resetChatSession
                ELSE chatSessionInstance, createCount, FALSE)

setThinkingBudget(budget) ==
  /\ budget # thinkingBudget
  /\ UNCHANGED <<build, clock, isLoading, error, allChats,
                 appInitialWelcomeTextRef, TitleVars, turns>>
  /\ thinkingBudget' = budget
  /\ UNCHANGED <<messages, currentChatModel, currentChatId>>
  /\ reinitializeChatForCurrentSettings(chatSessionInstance, createCount, FALSE)

(***************************************************************************)
(* Summary editor: handleAskFollowUp and the events of its stream          *)
(* (src/components/SettingsPage.tsx, src/unnamed/part_000)                 *)
(***************************************************************************)
REPLACE_SUMMARY_COMMAND == <<"[", "r", "e", "p", "l", "a", "c", "e", "_", "s", "u", "m", "m", "a", "r", "y", "_", "w", "i", "t", "h", "_", "n", "e", "w", "_", "t", "e", "x", "t", "]">>

\* String.prototype.includes
Includes(s, sub) ==
  \E i \in 1..(Len(s) - Len(sub) + 1) : SubSeq(s, i, i + Len(sub) - 1) = sub

\* the position of the last occurrence
IndexOf_LastOccurrence(s, sub) ==
  CHOOSE i \in 1..(Len(s) - Len(sub) + 1) :
    /\ SubSeq(s, i, i + Len(sub) - 1) = sub
    /\ \A j \in (i + 1)..(Len(s) - Len(sub) + 1) :
         SubSeq(s, j, j + Len(sub) - 1) # sub

\* String.prototype.indexOf, as a 1-based position, for s that includes sub
IndexOf(s, sub) ==
  CHOOSE i \in 1..(Len(s) - Len(sub) + 1) :
    /\ SubSeq(s, i, i + Len(sub) - 1) = sub
    /\ \A j \in 1..(i - 1) : SubSeq(s, j, j + Len(sub) - 1) # sub

SUMMARY_TEXT == <<"S">>

FollowUpIdle ==
  [phase |-> "idle", isReplacingSummaryRef |-> FALSE,
   didFollowUpActAsReplacement |-> FALSE, displayText |-> SUMMARY_TEXT,
   followUpResponse |-> <<>>, revisedSummaryAccumulator |-> <<>>,
   currentFollowUpTextAccumulator |-> <<>>, followUpError |-> FALSE,
   isAskingFollowUp |-> FALSE, pending |-> <<>>, delivered |-> <<>>]

\* the responses the backend streams, and the ways they are cut into chunks
FollowUpTexts ==
  {<<"a", ":", " ">> \o REPLACE_SUMMARY_COMMAND \o <<"\n", "N", "B">>,
   REPLACE_SUMMARY_COMMAND,
   <<"o", "k">>}

Cuts(x) ==
  {<<x>>} \cup {<<SubSeq(x, 1, k), SubSeq(x, k + 1, Len(x))>> : k \in 1..(Len(x) - 1)}

FollowUpStreams ==
  UNION {Cuts(x) : x \in FollowUpTexts}
    \cup {Append(c, <<"+">>) : c \in Cuts(REPLACE_SUMMARY_COMMAND \o <<"\n", "N">>)}
    \cup {<<REPLACE_SUMMARY_COMMAND \o <<" ", "N">> \o REPLACE_SUMMARY_COMMAND \o <<"B">>>>,
          <<REPLACE_SUMMARY_COMMAND \o <<" ", "N">>, REPLACE_SUMMARY_COMMAND \o <<"B">>>>}

\* handleAskFollowUp up to its first await; stream is what the backend will deliver
handleAskFollowUp(stream) ==
  /\ followUp.phase # "streaming"
  /\ ~IsBlank(followUp.displayText)
  /\ followUp' = [followUp EXCEPT
       !.phase = "streaming", !.isAskingFollowUp = TRUE,
       !.followUpError = FALSE, !.followUpResponse = <<>>,
       !.didFollowUpActAsReplacement = FALSE,
       !.isReplacingSummaryRef = FALSE,
       !.revisedSummaryAccumulator = <<>>,
       !.currentFollowUpTextAccumulator = <<>>,
       !.pending = stream, !.delivered = <<>>]

\* the loop body with the marker test made in every mode
FollowUpChunk_MarkerTestInEveryMode ==
  LET textChunk == Head(followUp.pending)
      consumed == [followUp EXCEPT !.pending = Tail(followUp.pending),
                                   !.delivered = Append(followUp.delivered, textChunk)]
  IN /\ followUp.phase = "streaming"
     /\ followUp.pending # <<>>
     /\ followUp' =
          IF textChunk = <<>> THEN consumed
          ELSE IF Includes(textChunk, REPLACE_SUMMARY_COMMAND)
          THEN LET textAfterCommand ==
                     TrimStart(SubSeq(textChunk,
                        IndexOf(textChunk, REPLACE_SUMMARY_COMMAND)
                          + Len(REPLACE_SUMMARY_COMMAND), Len(textChunk)))
               IN IF textAfterCommand # <<>>
                  THEN [consumed EXCEPT
                          !.isReplacingSummaryRef = TRUE,
                          !.didFollowUpActAsReplacement = TRUE,
                          !.revisedSummaryAccumulator = textAfterCommand,
                          !.displayText = textAfterCommand]
                  ELSE [consumed EXCEPT
                          !.isReplacingSummaryRef = TRUE,
                          !.didFollowUpActAsReplacement = TRUE]
          ELSE IF followUp.isReplacingSummaryRef
          THEN [consumed EXCEPT
                  !.revisedSummaryAccumulator = @ \o textChunk,
                  !.displayText = followUp.revisedSummaryAccumulator \o textChunk]
          ELSE [consumed EXCEPT
                  !.currentFollowUpTextAccumulator = @ \o textChunk,
                  !.followUpResponse =
                      followUp.currentFollowUpTextAccumulator \o textChunk]

\* the body of the for-await loop for the next chunk
FollowUpChunk ==
  LET textChunk == Head(followUp.pending)
      consumed == [followUp EXCEPT !.pending = Tail(followUp.pending),
                                   !.delivered = Append(followUp.delivered, textChunk)]
  IN /\ followUp.phase = "streaming"
     /\ followUp.pending # <<>>
     /\ followUp' =
          IF textChunk = <<>> THEN consumed
          ELSE IF /\ ~followUp.isReplacingSummaryRef
                  /\ Includes(textChunk, REPLACE_SUMMARY_COMMAND)
          THEN LET textAfterCommand ==
                     TrimStart(SubSeq(textChunk,
                        IndexOf(textChunk, REPLACE_SUMMARY_COMMAND)
                          + Len(REPLACE_SUMMARY_COMMAND), Len(textChunk)))
               IN IF textAfterCommand # <<>>
                  THEN [consumed EXCEPT
                          !.isReplacingSummaryRef = TRUE,
                          !.didFollowUpActAsReplacement = TRUE,
                          !.revisedSummaryAccumulator = textAfterCommand,
                          !.displayText = textAfterCommand]
                  ELSE [consumed EXCEPT
                          !.isReplacingSummaryRef = TRUE,
                          !.didFollowUpActAsReplacement = TRUE]
          ELSE IF followUp.isReplacingSummaryRef
          THEN [consumed EXCEPT
                  !.revisedSummaryAccumulator = @ \o textChunk,
                  !.displayText = followUp.revisedSummaryAccumulator \o textChunk]
          ELSE [consumed EXCEPT
                  !.currentFollowUpTextAccumulator = @ \o textChunk,
                  !.followUpResponse =
                      followUp.currentFollowUpTextAccumulator \o textChunk]

\* the stream ends: the statements after the loop and the finally block
FollowUpEnd ==
  /\ followUp.phase = "streaming"
  /\ followUp.pending = <<>>
  /\ followUp' = [followUp EXCEPT
       !.phase = "done", !.isAskingFollowUp = FALSE,
       !.displayText =
          IF followUp.isReplacingSummaryRef
             /\ followUp.revisedSummaryAccumulator = <<>>
          THEN <<>> ELSE @]

\* the stream fails: the catch and the finally block
FollowUpError ==
  /\ followUp.phase = "streaming"
  /\ followUp' = [followUp EXCEPT
       !.phase = "done", !.isAskingFollowUp = FALSE, !.followUpError = TRUE,
       !.pending = <<>>]

\* no service function has been called directly
ServiceIdle == [fn |-> "none", input |-> <<>>, output |-> <<>>]

(***************************************************************************)
(* Start-up: the state after the first render and its mount effects.  The  *)
(* stored chats are either absent (startNewChat runs) or one earlier       *)
(* conversation with a generated title, which is then the active one.      *)
(***************************************************************************)
StoredMessage(prefix, sender, text) ==
  [id |-> <<prefix, 1>>, text |-> text, sender |-> sender,
   isStreaming |-> FALSE, isError |-> FALSE, thinkingDetails |-> NoThinking]

StoredChats ==
  {<<>>,
   <<[id |-> 1, title |-> <<"T">>,
      messages |-> <<StoredMessage("user", "user", <<"q">>),
                     StoredMessage("ai", "ai", <<"r">>)>>,
      aiMessagesSinceLastTitleUpdate |-> TITLE_UPDATE_MESSAGE_THRESHOLD - 1]>>}

Init ==
  /\ build \in {"proxy", "session"}
  /\ clock = 1
  /\ \E loadedChats \in StoredChats :
       IF loadedChats = <<>>
       THEN /\ messages = <<createNewWelcomeMessage(DEFAULT_CHAT_MODEL, 1)>>
            /\ allChats = <<[id |-> 1, title |-> NEW_CHAT, messages |-> messages,
                             aiMessagesSinceLastTitleUpdate |-> 0]>>
       ELSE /\ allChats = loadedChats
            /\ messages = loadedChats[1].messages
  /\ currentChatId = 1
  /\ appInitialWelcomeTextRef = WelcomeRefFor(messages, DEFAULT_CHAT_MODEL)
  /\ isLoading = FALSE
  /\ isTitleLoading = FALSE
  /\ error = Null
  /\ thinkingBudget = 0
  /\ currentChatModel = DEFAULT_CHAT_MODEL
  /\ titleUpdateQueue = NoJob
  /\ titleUpdateTimeout = NoTimer
  /\ timers = {}
  /\ titleCalls = {}
  /\ turns = {}
  /\ chatSessionInstance =
       IF build = "session"
       THEN initializeChatSession(DEFAULT_CHAT_MODEL,
              mapMessagesToGeminiHistory(messages), 0)
       ELSE NoSession
  /\ createCount = IF build = "session" THEN 1 ELSE 0
  /\ followUp = FollowUpIdle
  /\ service = ServiceIdle

AppVars == <<build, clock, messages, isLoading, isTitleLoading, error,
             currentChatId, allChats, thinkingBudget, currentChatModel,
             appInitialWelcomeTextRef, titleUpdateQueue, titleUpdateTimeout,
             timers, titleCalls, turns, chatSessionInstance, createCount>>

\* the chat application with the selected model and budget left alone
Next ==
  \/ \E inputText \in InputTexts :
       handleSendMessage(inputText) /\ UNCHANGED <<followUp, service>>
  \/ \E t \in turns :
       StreamChunk(t, NextChunk(t.chunks)) /\ UNCHANGED <<followUp, service>>
  \/ \E t \in turns : StreamEnd(t) /\ UNCHANGED <<followUp, service>>
  \/ \E t \in turns : \E eMessage \in ErrorMessages :
       StreamError(t, eMessage) /\ UNCHANGED <<followUp, service>>
  \/ startNewChat /\ UNCHANGED <<followUp, service>>
  \/ \E chatId \in ChatIds(allChats) : switchChat(chatId) /\ UNCHANGED <<followUp, service>>
  \/ \E chatId \in ChatIds(allChats) : deleteChat(chatId) /\ UNCHANGED <<followUp, service>>
  \/ \E tm \in timers : TimerFires(tm) /\ UNCHANGED <<followUp, service>>
  \/ \E call \in titleCalls : \E outcome \in TitleOutcomes :
       TitleResolved(call, outcome) /\ UNCHANGED <<followUp, service>>

Spec == Init /\ [][Next]_vars

\* the chat application with settings changes: conversations are started
\* but not revisited, and streams fail with one kind of error
SettingsErrorMessages == {<<>>}

NextSettings ==
  \/ \E inputText \in InputTexts :
       handleSendMessage(inputText) /\ UNCHANGED <<followUp, service>>
  \/ \E t \in turns :
       StreamChunk(t, NextChunk(t.chunks)) /\ UNCHANGED <<followUp, service>>
  \/ \E t \in turns : StreamEnd(t) /\ UNCHANGED <<followUp, service>>
  \/ \E t \in turns : \E eMessage \in SettingsErrorMessages :
       StreamError(t, eMessage) /\ UNCHANGED <<followUp, service>>
  \/ startNewChat /\ UNCHANGED <<followUp, service>>
  \/ \E model \in AVAILABLE_CHAT_MODELS :
       setCurrentChatModel(model) /\ UNCHANGED <<followUp, service>>
  \/ \E budget \in ThinkingBudgets :
       setThinkingBudget(budget) /\ UNCHANGED <<followUp, service>>

SpecSettings == Init /\ [][NextSettings]_vars

\* the summary editor
NextFollowUp ==
  \/ \E stream \in FollowUpStreams :
       handleAskFollowUp(stream) /\ UNCHANGED <<AppVars, service>>
  \/ FollowUpChunk /\ UNCHANGED <<AppVars, service>>
  \/ FollowUpEnd /\ UNCHANGED <<AppVars, service>>
  \/ FollowUpError /\ UNCHANGED <<AppVars, service>>

SpecFollowUp == Init /\ [][NextFollowUp]_vars

(***************************************************************************)
(* The service functions called directly: service records the function,   *)
(* its arguments and what it returned.                                     *)
(***************************************************************************)
ServiceMessage(n, sender, text) ==
  [id |-> <<sender, n>>, text |-> text, sender |-> sender,
   isStreaming |-> FALSE, isError |-> FALSE, thinkingDetails |-> NoThinking]

\* first user messages: one word, four words, five words, a doubled space,
\* surrounding spaces
TitleUserTexts ==
  {<<"h">>,
   <<"a", " ", "b", " ", "c", " ", "d">>,
   <<"P", "l", "a", "n", " ", "m", "y", " ", "t", "r", "i", "p", " ", "t", "o", " ", "R", "o", "m", "e">>,
   <<"a", " ", " ", "b", " ", "c", " ", "d", " ", "e">>,
   <<" ", "a", " ", "b", " ", "c", " ", "d", " ", "e", " ", "f", " ">>}

TitleMessageLists ==
  UNION {{<<ServiceMessage(1, "user", text)>>,
          <<createNewWelcomeMessage(DEFAULT_CHAT_MODEL, 1),
            ServiceMessage(2, "user", text), ServiceMessage(3, "ai", <<"r">>)>>,
          <<ServiceMessage(1, "user", text), ServiceMessage(2, "ai", <<"r">>),
            ServiceMessage(3, "user", <<"z", " ", "y", " ", "x", " ", "w", " ", "v", " ", "u">>)>>}
         : text \in TitleUserTexts}

\* what the title request produced: ok is FALSE when the call threw, the
\* response was not OK or the prompt was blocked; text is the response text
\* (quoted, prefixed in capitals, prefixed and quoted, nine words)
TitleResponses ==
  {[ok |-> FALSE, text |-> <<>>],
   [ok |-> TRUE, text |-> <<>>],
   [ok |-> TRUE, text |-> <<" ">>],
   [ok |-> TRUE, text |-> <<"\"", "X", "\"">>],
   [ok |-> TRUE, text |-> <<"T", "I", "T", "L", "E", ":", " ", "X", "\n">>],
   [ok |-> TRUE, text |-> <<"T", "i", "t", "l", "e", ":", " ", "\"", "X", "\"">>],
   [ok |-> TRUE, text |-> <<"a", " ", "b", " ", "c", " ", "d", " ", "e", " ", "f", " ", "g", " ", "h", " ", "i">>]}

CallGenerateChatTitleWithAI(chatMessages, outcome) ==
  service' = [fn |-> "generateChatTitleWithAI",
              input |-> <<chatMessages, outcome>>,
              output |-> <<generateChatTitleWithAI(chatMessages, outcome)>>]

\* the thinking budget slider of the settings page: 0 to 5
ServiceBudgets == 0..5

ServiceHistories ==
  {<<>>, <<HistoryItem(ServiceMessage(1, "user", <<"q">>)),
           HistoryItem(ServiceMessage(2, "ai", <<"r">>))>>}

CallInitializeChatSession(modelName, history, thinkingBudgetUiValue) ==
  service' = [fn |-> "initializeChatSession",
              input |-> [model |-> modelName, history |-> history,
                         budget |-> thinkingBudgetUiValue],
              output |-> <<initializeChatSession(modelName, history,
                                                 thinkingBudgetUiValue)>>]

CallSendMessageToChatStream(message, history, model, budget) ==
  service' = [fn |-> "sendMessageToChatStream",
              input |-> [model |-> model, history |-> history,
                         budget |-> budget],
              output |-> <<ProxyChatRequest(message, history, model, budget)>>]

(***************************************************************************)
(* The API credential.  apiKey says whether process.env.API_KEY is set in  *)
(* the environment the function runs in.                                   *)
(***************************************************************************)
METHOD_NOT_ALLOWED == <<"Method not allowed">>

API_KEY_NOT_CONFIGURED == <<"API key not configured on the server">>

INVALID_PROXY_TYPE == <<"Invalid proxy type">>

API_KEY_NOT_SET ==
  <<"API_KEY environment variable not set. Please ensure it is configured.">>

AI_SERVICE_NOT_INITIALIZED == <<"AI service not initialized.">>

CANNOT_ASK_FOLLOW_UP ==
  <<"Cannot ask follow-up: AI service not ready, question is empty, or no summary context available.">>

ProxyRequests ==
  [method : {"GET", "POST"},
   type : {"chat", "generate-title", "summarize", "summarize-follow-up", "other"},
   backendFails : BOOLEAN]

\* the client created before the credential is looked at
handler_ClientBeforeKeyCheck(req, apiKey) ==
  IF req.method # "POST"
  THEN [status |-> 405, error |-> METHOD_NOT_ALLOWED,
        clientCreated |-> FALSE, backendCalled |-> FALSE]
  ELSE IF ~apiKey
  THEN [status |-> 500, error |-> API_KEY_NOT_CONFIGURED,
        clientCreated |-> TRUE, backendCalled |-> FALSE]
  ELSE IF req.type = "other"
  THEN [status |-> 400, error |-> INVALID_PROXY_TYPE,
        clientCreated |-> TRUE, backendCalled |-> FALSE]
  ELSE IF req.backendFails
  THEN [status |-> 500, error |-> <<"x">>,
        clientCreated |-> TRUE, backendCalled |-> TRUE]
  ELSE [status |-> 200, error |-> <<>>,
        clientCreated |-> TRUE, backendCalled |-> TRUE]

\* proxy.ts handler: the status and the error of the JSON body of its
\* response (empty when the response is the data), whether it created a
\* GoogleGenAI client and whether it called the backend
handler(req, apiKey) ==
  IF req.method # "POST"
  THEN [status |-> 405, error |-> METHOD_NOT_ALLOWED,
        clientCreated |-> FALSE, backendCalled |-> FALSE]
  ELSE IF ~apiKey
  THEN [status |-> 500, error |-> API_KEY_NOT_CONFIGURED,
        clientCreated |-> FALSE, backendCalled |-> FALSE]
  ELSE IF req.type = "other"
  THEN [status |-> 400, error |-> INVALID_PROXY_TYPE,
        clientCreated |-> TRUE, backendCalled |-> FALSE]
  ELSE IF req.backendFails
  THEN [status |-> 500, error |-> <<"x">>,
        clientCreated |-> TRUE, backendCalled |-> TRUE]
  ELSE [status |-> 200, error |-> <<>>,
        clientCreated |-> TRUE, backendCalled |-> TRUE]

\* geminiService.ts initializeAI: the error it throws, if any, and whether
\* a GoogleGenAI client exists afterwards
initializeAI(apiKey) ==
  IF ~apiKey THEN [thrown |-> API_KEY_NOT_SET, clientCreated |-> FALSE]
  ELSE [thrown |-> <<>>, clientCreated |-> TRUE]

\* part_001: const [isApiKeyMissing] = useState(!process.env.API_KEY)
isApiKeyMissing(apiKey) == ~apiKey

\* the network features of the two clients
NetworkFeatures ==
  {"session:reinitializeChatForCurrentSettings", "session:handleSendMessage",
   "session:processTitleUpdateQueue", "proxy:handleSendMessage",
   "proxy:generateChatTitleWithAI", "editor:handleSummarize",
   "editor:handleAskFollowUp"}

Returned == [outcome |-> "returned", error |-> <<>>, clientCreated |-> FALSE,
             backendCalled |-> FALSE]

\* what a feature comes to in an environment with or without the
\* credential: "returned" (an early return), "error" (a caught exception or
\* a refusal, shown as the error value), "uncaught" (an exception that
\* leaves the handler or effect), "done" (the backend was called)
NetworkFeature(feature, apiKey) ==
  LET ai == initializeAI(apiKey)
      chat == handler([method |-> "POST", type |-> "chat",
                       backendFails |-> FALSE], apiKey)
      title == handler([method |-> "POST", type |-> "generate-title",
                        backendFails |-> FALSE], apiKey)
      Done(created) == [outcome |-> "done", error |-> <<>>,
                        clientCreated |-> created, backendCalled |-> TRUE]
  IN CASE feature = "session:reinitializeChatForCurrentSettings" ->
            IF isApiKeyMissing(apiKey) THEN Returned
            ELSE IF ai.thrown # <<>>
                 THEN [outcome |-> "uncaught", error |-> ai.thrown,
                       clientCreated |-> FALSE, backendCalled |-> FALSE]
            ELSE Done(TRUE)
       [] feature = "session:handleSendMessage" ->
            IF isApiKeyMissing(apiKey) THEN Returned
            ELSE IF ai.thrown # <<>>
                 THEN [outcome |-> "error", error |-> ErrorText(ai.thrown),
                       clientCreated |-> FALSE, backendCalled |-> FALSE]
            ELSE Done(TRUE)
       [] feature = "session:processTitleUpdateQueue" ->
            IF isApiKeyMissing(apiKey) THEN Returned
            ELSE IF ai.thrown # <<>>
                 THEN [outcome |-> "error", error |-> ai.thrown,
                       clientCreated |-> FALSE, backendCalled |-> FALSE]
            ELSE Done(TRUE)
       [] feature = "proxy:handleSendMessage" ->
            IF chat.status # 200
            THEN [outcome |-> "error", error |-> ErrorText(chat.error),
                  clientCreated |-> chat.clientCreated,
                  backendCalled |-> chat.backendCalled]
            ELSE Done(chat.clientCreated)
       [] feature = "proxy:generateChatTitleWithAI" ->
            IF title.status # 200
            THEN [outcome |-> "error", error |-> title.error,
                  clientCreated |-> title.clientCreated,
                  backendCalled |-> title.backendCalled]
            ELSE Done(title.clientCreated)
       [] feature = "editor:handleSummarize" ->
            IF ~apiKey
            THEN [outcome |-> "error", error |-> AI_SERVICE_NOT_INITIALIZED,
                  clientCreated |-> FALSE, backendCalled |-> FALSE]
            ELSE Done(TRUE)
       [] feature = "editor:handleAskFollowUp" ->
            IF ~apiKey
            THEN [outcome |-> "error", error |-> CANNOT_ASK_FOLLOW_UP,
                  clientCreated |-> FALSE, backendCalled |-> FALSE]
            ELSE Done(TRUE)

CallHandler(req, apiKey) ==
  service' = [fn |-> "handler", input |-> [req |-> req, apiKey |-> apiKey],
              output |-> <<handler(req, apiKey)>>]

CallInitializeAI(apiKey) ==
  service' = [fn |-> "initializeAI", input |-> [apiKey |-> apiKey],
              output |-> <<initializeAI(apiKey)>>]

CallNetworkFeature(feature, apiKey) ==
  service' = [fn |-> "feature", input |-> [feature |-> feature, apiKey |-> apiKey],
              output |-> <<NetworkFeature(feature, apiKey)>>]

NextService ==
  \/ \E chatMessages \in TitleMessageLists : \E outcome \in TitleResponses :
       CallGenerateChatTitleWithAI(chatMessages, outcome)
         /\ UNCHANGED <<AppVars, followUp>>
  \/ \E modelName \in AVAILABLE_CHAT_MODELS : \E history \in ServiceHistories :
       \E budget \in ServiceBudgets :
         CallInitializeChatSession(modelName, history, budget)
           /\ UNCHANGED <<AppVars, followUp>>
  \/ \E model \in AVAILABLE_CHAT_MODELS : \E history \in ServiceHistories :
       \E budget \in ServiceBudgets :
         CallSendMessageToChatStream(<<"h">>, history, model, budget)
           /\ UNCHANGED <<AppVars, followUp>>
  \/ \E req \in ProxyRequests : \E apiKey \in BOOLEAN :
       CallHandler(req, apiKey) /\ UNCHANGED <<AppVars, followUp>>
  \/ \E apiKey \in BOOLEAN :
       CallInitializeAI(apiKey) /\ UNCHANGED <<AppVars, followUp>>
  \/ \E feature \in NetworkFeatures : \E apiKey \in BOOLEAN :
       CallNetworkFeature(feature, apiKey) /\ UNCHANGED <<AppVars, followUp>>

SpecService == Init /\ [][NextService]_vars

(***************************************************************************)
(* The chat session of geminiService.ts as the module keeps it: the        *)
(* module variable chatSessionInstance and the three exported functions    *)
(* that read or write it, called in any order.                             *)
(***************************************************************************)
CHAT_SESSION_NOT_ACTIVE ==
  <<"Chat session is not active. Please ensure the chat is properly initialized before sending messages.">>

SessionMessages == {<<"h">>, <<"k">>}

\* the stream opened on whatever the module variable holds
sendMessageToChatStream_NoSessionCheck(session, message) ==
  [thrown |-> <<>>, streamOpened |-> TRUE, session |-> session,
   message |-> message]

\* geminiService.ts sendMessageToChatStream: the error it throws, if any,
\* and the session and message of the sendMessageStream call it makes
sendMessageToChatStream(session, message) ==
  IF session = NoSession
  THEN [thrown |-> CHAT_SESSION_NOT_ACTIVE, streamOpened |-> FALSE,
        session |-> NoSession, message |-> <<>>]
  ELSE [thrown |-> <<>>, streamOpened |-> TRUE, session |-> session,
        message |-> message]

SessionInitialize(modelName, history, thinkingBudgetUiValue) ==
  /\ chatSessionInstance' =
       initializeChatSession(modelName, history, thinkingBudgetUiValue)
  /\ createCount' = Bump(createCount, MaxCreate)
  /\ service' = [fn |-> "session:initializeChatSession",
                 input |-> [model |-> modelName, history |-> history,
                            budget |-> thinkingBudgetUiValue],
                 output |-> <<chatSessionInstance'>>]

SessionSend(message) ==
  /\ service' = [fn |-> "session:sendMessageToChatStream",
                 input |-> [message |-> message],
                 output |-> <<sendMessageToChatStream(chatSessionInstance,
                                                      message)>>]
  /\ UNCHANGED <<chatSessionInstance, createCount>>

SessionReset ==
  /\ chatSessionInstance' = resetChatSession
  /\ service' = [fn |-> "session:resetChatSession", input |-> <<>>,
                 output |-> <<>>]
  /\ UNCHANGED createCount

SessionFrame ==
  <<build, clock, messages, isLoading, isTitleLoading, error, currentChatId,
    allChats, thinkingBudget, currentChatModel, appInitialWelcomeTextRef,
    titleUpdateQueue, titleUpdateTimeout, timers, titleCalls, turns, followUp>>

NextSession ==
  \/ \E modelName \in AVAILABLE_CHAT_MODELS : \E history \in ServiceHistories :
       \E budget \in ServiceBudgets :
         SessionInitialize(modelName, history, budget) /\ UNCHANGED SessionFrame
  \/ \E message \in SessionMessages :
       SessionSend(message) /\ UNCHANGED SessionFrame
  \/ SessionReset /\ UNCHANGED SessionFrame

SpecSession == Init /\ [][NextSession]_vars

(***************************************************************************)
(* Properties                                                              *)
(***************************************************************************)
MessagesWithId(msgs, id) == {i \in 1..Len(msgs) : msgs[i].id = id}

StoredChat(chats, id) ==
  IF id \in ChatIds(chats) THEN <<FindChat(chats, id)>> ELSE <<>>

Titles(chats) == [i \in 1..Len(chats) |-> <<chats[i].id, chats[i].title>>]

\* C1: handleSendMessage invoked while isLoading is true changes nothing:
\* no message is appended to the displayed list, allChats is unchanged and
\* no stream is opened.
C1_SendWhileLoadingIsNoOp ==
  [][\A inputText \in InputTexts :
       (isLoading /\ handleSendMessage(inputText))
          => UNCHANGED <<messages, allChats, turns, titleUpdateQueue, timers>>]_vars

\* a turn is streaming and the loading flag is up, so a send is ignored here
C1_Witness ==
  /\ isLoading
  /\ \E t \in turns : MessagesWithId(messages, AiId(t)) # {}
  /\ \E inputText \in InputTexts : ~IsBlank(inputText) /\ SendRejected(inputText)

\* C2: the text a turn accumulates is the concatenation of the chunks it
\* received, in arrival order; right after the k-th chunk the turn's
\* assistant message shows the concatenation of the first k chunks with
\* streaming = true; when the stream ends normally the message shown and
\* the message stored hold the concatenation of all chunks.
C2_FoldInv ==
  \A t \in turns : t.accumulatedRegularText = Flatten(t.chunks)

C2_FoldChunk ==
  \A t \in turns : \A textContent \in Chunks :
    StreamChunk(t, textContent) =>
      \A i \in MessagesWithId(messages', AiId(t)) :
        /\ messages'[i].text = Flatten(Append(t.chunks, textContent))
        /\ messages'[i].isStreaming

C2_FoldEnd ==
  \A t \in turns :
    StreamEnd(t) =>
      /\ \A i \in MessagesWithId(messages', AiId(t)) :
           messages'[i].text = Flatten(t.chunks) /\ ~messages'[i].isStreaming
      /\ \A c \in {allChats'[k] : k \in 1..Len(allChats')} :
           \A i \in MessagesWithId(c.messages, AiId(t)) :
             c.messages[i].text = Flatten(t.chunks)

C2_StreamFold == [](C2_FoldInv) /\ [][C2_FoldChunk /\ C2_FoldEnd]_vars

\* a turn that received "ab" then "c" has ended and shows "abc"
C2_Witness ==
  \E i \in 1..Len(messages) :
    /\ messages[i].sender = "ai"
    /\ messages[i].text = <<"a", "b", "c">>
    /\ ~messages[i].isStreaming
    /\ ~messages[i].isError
    /\ \A t \in turns : AiId(t) # messages[i].id
    /\ \E c \in {allChats[k] : k \in 1..Len(allChats)} :
         c.id = currentChatId /\ c.messages = messages

\* C3: once the active conversation is no longer the one a turn was started
\* in, no chunk, end or error of that turn changes that conversation's
\* entry in allChats.
C3_StaleTurnLeavesConversation ==
  [][\A t \in turns :
       (/\ t.chatId # currentChatId
        /\ \/ StreamEnd(t)
           \/ \E textContent \in Chunks : StreamChunk(t, textContent)
           \/ \E eMessage \in ErrorMessages : StreamError(t, eMessage))
         => StoredChat(allChats', t.chatId) = StoredChat(allChats, t.chatId)]_vars

\* C4: at most one turn's stream is in flight at any time.
C4_AtMostOneTurnInFlight == Cardinality(turns) <= 1

\* C5: when a follow-up stream has ended and the marker
\* [replace_summary_with_new_text] arrived split across two consecutive
\* chunks, the editor is in replacing mode and the summary shown is exactly
\* the text that followed the marker.
C5_SplitMarkerEntersReplacing ==
  LET delivered == followUp.delivered
      whole == Flatten(delivered)
  IN (/\ followUp.phase = "done"
      /\ ~followUp.followUpError
      /\ \A i \in 1..Len(delivered) :
           ~Includes(delivered[i], REPLACE_SUMMARY_COMMAND)
      /\ \E i \in 1..(Len(delivered) - 1) :
           Includes(delivered[i] \o delivered[i + 1], REPLACE_SUMMARY_COMMAND))
       => /\ followUp.isReplacingSummaryRef
          /\ followUp.displayText =
               TrimStart(SubSeq(whole,
                  IndexOf(whole, REPLACE_SUMMARY_COMMAND)
                    + Len(REPLACE_SUMMARY_COMMAND), Len(whole)))

\* C6: a turn sent while a live session already has the selected model and
\* thinking budget reuses it: no further session is created.
C6_EnsureSessionIdempotent ==
  [][(/\ build = "session"
      /\ chatSessionInstance =
           initializeChatSession(currentChatModel, chatSessionInstance.history,
                                 thinkingBudget)
      /\ \E inputText \in InputTexts :
           ~SendRejected(inputText) /\ handleSendMessage(inputText))
        => createCount' = createCount]_vars

\* C7: no history built for the backend holds the welcome message or a
\* blank text; a conversation holding only the welcome message maps to
\* the empty history.
BuiltHistories ==
  {t.request.history : t \in turns} \cup {chatSessionInstance.history}

C7_HistoryExcludesWelcome ==
  /\ \A h \in BuiltHistories : \A i \in 1..Len(h) :
       /\ ~(h[i].role = "model"
            /\ StartsWith(h[i].parts[1], INITIAL_AI_WELCOME_TEXT_BASE))
       /\ ~IsBlank(h[i].parts[1])
  /\ (Len(messages) = 1 /\ IsWelcome(messages[1]))
        => mapMessagesToGeminiHistory(messages) = <<>>

\* C8: when the stream of a turn fails, the turn's assistant message ends
\* with error = true, streaming = false and the text "Error: <message>".
C8_StreamErrorIsTerminal ==
  [][\A t \in turns : \A eMessage \in ErrorMessages :
       StreamError(t, eMessage) =>
         \A i \in MessagesWithId(messages', AiId(t)) :
           /\ messages'[i].isError
           /\ ~messages'[i].isStreaming
           /\ messages'[i].text = ErrorText(eMessage)]_vars

\* C9: a title job that fires when its conversation is gone, or when
\* another conversation is active and the job is not flagged isNew, is
\* skipped: no title request is made and no title changes.
C9_StaleTitleJobSkipped ==
  [][\A tm \in timers :
       (/\ TimerFires(tm)
        /\ titleUpdateQueue # NoJob
        /\ \/ titleUpdateQueue.id \notin ChatIds(allChats)
           \/ titleUpdateQueue.id # currentChatId /\ ~titleUpdateQueue.isNew)
         => /\ titleCalls' = titleCalls
            /\ Titles(allChats') = Titles(allChats)]_vars

\* C10: scheduleTitleUpdate replaces the pending job and re-arms the single
\* timer: at most one timer and one job are pending, the pending job is
\* that of the last schedule call, and one timer callback processes it.
C10_OnePending ==
  /\ Cardinality(timers) <= 1
  /\ (timers = {}) <=> (titleUpdateQueue = NoJob)
  /\ \A tm \in timers : tm.tid = titleUpdateTimeout

C10_LastCallWins ==
  /\ \A inputText \in InputTexts :
       (handleSendMessage(inputText) /\ titleUpdateTimeout' # titleUpdateTimeout)
         => /\ titleUpdateQueue' = [id |-> currentChatId, isNew |-> TRUE,
                                    messagesForContext |-> messages]
            /\ timers' = {[tid |-> titleUpdateTimeout', chatId |-> currentChatId]}
  /\ \A t \in turns :
       (StreamEnd(t) /\ titleUpdateTimeout' # titleUpdateTimeout)
         => /\ titleUpdateQueue' = [id |-> t.chatId, isNew |-> FALSE,
                                    messagesForContext |-> t.closureMessages]
            /\ timers' = {[tid |-> titleUpdateTimeout', chatId |-> t.chatId]}
  /\ \A tm \in timers :
       TimerFires(tm) => timers' = {} /\ titleUpdateQueue' = NoJob

C10_LastWriteWins == [](C10_OnePending) /\ [][C10_LastCallWins]_vars

\* the job of a second turn's end replaced the still pending job of the
\* first: the counter was never reset, so the first timer never fired
C10_Witness ==
  /\ titleUpdateTimeout = <<3, "end">>
  /\ timers = {[tid |-> <<3, "end">>, chatId |-> 1]}
  /\ titleUpdateQueue.id = 1
  /\ Len(titleUpdateQueue.messagesForContext) = 4
  /\ titleCalls = {}
  /\ \E k \in 1..Len(allChats) :
       /\ allChats[k].id = 1
       /\ allChats[k].aiMessagesSinceLastTitleUpdate =
            TITLE_UPDATE_MESSAGE_THRESHOLD + 1

\* the positions of the separators of split(' ')
SpacePositions(s) == {i \in 1..Len(s) : s[i] = " "}

\* s up to its fourth space, marked as truncated, or all of s
LeadingFourWords(s) ==
  IF Cardinality(SpacePositions(s)) <= 3 THEN s
  ELSE LET p == CHOOSE i \in SpacePositions(s) :
                  Cardinality({j \in SpacePositions(s) : j < i}) = 3
       IN SubSeq(s, 1, p - 1) \o <<".", ".", ".">>

FirstUserText(msgs) ==
  msgs[CHOOSE i \in 1..Len(msgs) :
         msgs[i].sender = "user" /\ \A j \in 1..(i - 1) : msgs[j].sender # "user"].text

TitleRequestFailed(outcome) == ~outcome.ok \/ IsBlank(outcome.text)

\* C11: when the title request fails or returns no text,
\* generateChatTitleWithAI returns the first user message's first four
\* space-separated words joined by single spaces, followed by an ellipsis
\* exactly when that message has more than four words; the result depends
\* on the first user message only.
C11_FallbackTitle ==
  (/\ service.fn = "generateChatTitleWithAI"
   /\ TitleRequestFailed(service.input[2]))
     => service.output = <<LeadingFourWords(Trim(FirstUserText(service.input[1])))>>

\* "Plan my trip to Rome" with a failed request gave "Plan my trip to..."
C11_Witness ==
  /\ service.fn = "generateChatTitleWithAI"
  /\ ~service.input[2].ok
  /\ FirstUserText(service.input[1]) = <<"P", "l", "a", "n", " ", "m", "y", " ", "t", "r", "i", "p", " ", "t", "o", " ", "R", "o", "m", "e">>
  /\ service.output = <<<<"P", "l", "a", "n", " ", "m", "y", " ", "t", "r", "i", "p", " ", "t", "o", ".", ".", ".">>>>

StoredMessages(chats) == [i \in 1..Len(chats) |-> chats[i].messages]

\* C12: whatever the title request produced, the step in which
\* processTitleUpdateQueue resumes leaves isTitleLoading false, leaves the
\* error banner, the displayed messages and the stored messages unchanged,
\* and the job's conversation, when still stored, has a non-empty title.
C12_TitleJobTerminates ==
  [][\A call \in titleCalls :
       titleCalls' = titleCalls \ {call}
         => /\ isTitleLoading' = FALSE
            /\ error' = error
            /\ messages' = messages
            /\ StoredMessages(allChats') = StoredMessages(allChats)
            /\ \A k \in 1..Len(allChats') :
                 allChats'[k].id = call.chatId
                   => /\ allChats'[k].title # <<>>
                      /\ allChats'[k].aiMessagesSinceLastTitleUpdate = 0]_vars

\* a resolved title request committed the cleaned response text
C12_Witness ==
  /\ titleCalls = {}
  /\ ~isTitleLoading
  /\ \E k \in 1..Len(allChats) :
       /\ allChats[k].title = <<"X">>
       /\ allChats[k].aiMessagesSinceLastTitleUpdate = 0

\* C13: a chunk, the end or the failure of the stream of a turn whose
\* conversation is no longer the active one changes neither the displayed
\* messages nor the error banner nor the loading flag.
C13_AbandonedTurnDropped ==
  [][\A t \in turns :
       (/\ t.chatId # currentChatId
        /\ \/ StreamEnd(t)
           \/ StreamChunk(t, NextChunk(t.chunks))
           \/ \E eMessage \in ErrorMessages : StreamError(t, eMessage))
         => /\ messages' = messages
            /\ error' = error
            /\ isLoading' = isLoading]_vars

\* C14: the chat session (geminiService.ts) and the chat request
\* (part_004) carry a thinkingConfig whose thinkingBudget is the caller's
\* budget, unchanged, exactly when the model is one that supports thinking;
\* for every other model the thinkingConfig is absent.
C14_ThinkingConfigOnlyForFlash ==
  service.fn \in {"initializeChatSession", "sendMessageToChatStream"}
    => LET request == service.output[1]
       IN /\ request.model = service.input.model
          /\ IF service.input.model \in THINKING_CONFIG_SUPPORTED_MODELS
             THEN /\ Len(request.thinkingConfig) = 1
                  /\ request.thinkingConfig[1].thinkingBudget = service.input.budget
             ELSE request.thinkingConfig = <<>>

\* a session for the pro model with budget 5 carries no thinkingConfig,
\* a request for the flash model with budget 5 carries budget 5
C14_Witness ==
  \/ /\ service.fn = "initializeChatSession"
     /\ service.input.model = "gemini-2.5-pro"
     /\ service.input.budget = 5
     /\ service.output[1].thinkingConfig = <<>>
  \/ /\ service.fn = "sendMessageToChatStream"
     /\ service.input.model = "gemini-2.5-flash"
     /\ service.input.budget = 5
     /\ service.output[1].thinkingConfig = <<[thinkingBudget |-> 5]>>

\* C15: without the API credential the proxy handler answers every POST
\* with status 500 and an error body before it creates a client,
\* initializeAI throws the configuration error, and every network feature
\* of the clients ends in an early return or an error value: no exception
\* leaves a handler, no client is created and the backend is not called.
C15_MissingCredentialIsAnError ==
  /\ (service.fn = "handler" /\ ~service.input.apiKey
        /\ service.input.req.method = "POST")
       => /\ service.output[1].status = 500
          /\ service.output[1].error # <<>>
          /\ ~service.output[1].clientCreated
          /\ ~service.output[1].backendCalled
  /\ (service.fn = "initializeAI" /\ ~service.input.apiKey)
       => /\ service.output[1].thrown = API_KEY_NOT_SET
          /\ ~service.output[1].clientCreated
  /\ (service.fn = "feature" /\ ~service.input.apiKey)
       => /\ service.output[1].outcome \in {"returned", "error"}
          /\ service.output[1].outcome = "error" => service.output[1].error # <<>>
          /\ ~service.output[1].clientCreated
          /\ ~service.output[1].backendCalled

\* a chat POST reached the proxy without the credential and was answered
\* with 500 "API key not configured on the server"
C15_Witness ==
  /\ service.fn = "handler"
  /\ service.input = [req |-> [method |-> "POST", type |-> "chat",
                                backendFails |-> FALSE],
                       apiKey |-> FALSE]
  /\ service.output[1].status = 500
  /\ service.output[1].error = API_KEY_NOT_CONFIGURED

\* the displayed assistant messages that ended normally: no longer
\* streaming, not an error, and no turn in flight writes to them
Finished(msgs, ts) ==
  {i \in 1..Len(msgs) : /\ msgs[i].sender = "ai"
                         /\ msgs[i].id[1] = "ai"
                         /\ ~msgs[i].isStreaming
                         /\ ~msgs[i].isError
                         /\ \A t \in ts : AiId(t) # msgs[i].id}

\* the normal end of turn t: its displayed message stops streaming, the
\* update after the stream and the final message are the same update, and
\* the turn is over
C16_EndStep ==
  \A t \in turns : \A i \in MessagesWithId(messages, AiId(t)) :
    StreamEnd(t) => /\ ~messages'[i].isStreaming
                    /\ messages'[i].text = Flatten(t.chunks)
                    /\ StreamCompleteUpdate(messages, t)[i] = messages'[i]
                    /\ t \notin turns'
                    /\ i \in Finished(messages', turns')

\* no send and no stream event of any turn changes a message that ended
C16_NoLaterUpdate ==
  \A i \in Finished(messages, turns) :
    (\/ \E inputText \in InputTexts : handleSendMessage(inputText)
     \/ \E t \in turns : \/ StreamEnd(t)
                         \/ StreamChunk(t, NextChunk(t.chunks))
                         \/ \E eMessage \in ErrorMessages : StreamError(t, eMessage))
      => /\ MessagesWithId(messages', messages[i].id) # {}
         /\ \A j \in MessagesWithId(messages', messages[i].id) :
              messages'[j] = messages[i]

C17_FirstMessageGetsTitle ==
  [][/\ \A inputText \in InputTexts :
          (handleSendMessage(inputText) /\ titleUpdateTimeout' # titleUpdateTimeout)
            => /\ titleUpdateQueue'.isNew
               /\ \E k \in 1..Len(titleUpdateQueue'.messagesForContext) :
                    titleUpdateQueue'.messagesForContext[k].id = <<"user", clock'>>
     /\ \A tm \in timers :
          (/\ TimerFires(tm)
           /\ titleUpdateQueue # NoJob
           /\ titleUpdateQueue.isNew
           /\ titleUpdateQueue.id = currentChatId)
            => titleCalls' # titleCalls]_vars

\* a history without the items of welcome messages
WithoutWelcome(history) ==
  SelectSeq(history, LAMBDA item :
    ~(item.role = "model"
      /\ StartsWith(item.parts[1], INITIAL_AI_WELCOME_TEXT_BASE)))

\* the displayed messages as history items, the welcome message and blank
\* texts left out
DisplayedHistory ==
  [k \in 1..Len(SelectSeq(messages, LAMBDA m : ~IsWelcome(m) /\ ~IsBlank(m.text)))
     |-> LET m == SelectSeq(messages,
                    LAMBDA x : ~IsWelcome(x) /\ ~IsBlank(x.text))[k]
         IN [role |-> IF m.sender = "user" THEN "user" ELSE "model",
             parts |-> <<m.text>>]]

\* C18: the session or request with which a turn opens its stream carries
\* the model and the thinking budget selected when the message is sent,
\* belongs to the active conversation, and its history is, the welcome
\* message aside, the displayed messages before the new user message.
C18_TurnUsesCurrentSettings ==
  [][\A inputText \in InputTexts :
       handleSendMessage(inputText)
         => \A t \in turns' \ turns :
              /\ t.chatId = currentChatId
              /\ t.request.live
              /\ t.request.model = currentChatModel
              /\ t.request.thinkingConfig =
                   IF currentChatModel \in THINKING_CONFIG_SUPPORTED_MODELS
                   THEN <<[thinkingBudget |-> thinkingBudget]>> ELSE <<>>
              /\ WithoutWelcome(t.request.history) = DisplayedHistory]_vars

\* a turn in flight was opened for the pro model after one finished
\* exchange: its history is that exchange, without the new user message
C18_Witness ==
  \E t \in turns :
    /\ t.request.model = "gemini-2.5-pro"
    /\ t.request.thinkingConfig = <<>>
    /\ Len(t.request.history) = 2
    /\ t.request.history[1].role = "user"
    /\ t.request.history[2].role = "model"
    /\ currentChatModel = "gemini-2.5-pro"

\* the positions at which an occurrence of the marker ends in s
MarkerEnds(s) ==
  {e \in Len(REPLACE_SUMMARY_COMMAND)..Len(s) :
     SubSeq(s, e - Len(REPLACE_SUMMARY_COMMAND) + 1, e) = REPLACE_SUMMARY_COMMAND}

\* s after its first marker, leading whitespace removed
AfterFirstMarker(s) ==
  LET e == CHOOSE x \in MarkerEnds(s) : \A y \in MarkerEnds(s) : x <= y
      rest == SubSeq(s, e + 1, Len(s))
      skip == CHOOSE n \in 0..Len(rest) :
                /\ \A k \in 1..n : rest[k] \in Whitespace
                /\ n < Len(rest) => rest[n + 1] \notin Whitespace
  IN SubSeq(rest, skip + 1, Len(rest))

\* the next chunk is the first of its stream to hold the marker whole
MarkerChunkNext ==
  /\ followUp.phase = "streaming"
  /\ followUp.pending # <<>>
  /\ ~followUp.isReplacingSummaryRef
  /\ MarkerEnds(Head(followUp.pending)) # {}

\* C19 as stated: the first chunk that holds the marker in normal mode
\* switches to replacing and raises the indicator, the accumulator starts
\* with what follows the marker, the indicator is raised by no other step,
\* and the replacement text never contains the marker.
C19_MarkerStep ==
  /\ (MarkerChunkNext /\ FollowUpChunk)
       => /\ followUp'.isReplacingSummaryRef
          /\ followUp'.didFollowUpActAsReplacement
          /\ followUp'.revisedSummaryAccumulator =
               AfterFirstMarker(Head(followUp.pending))
          /\ followUp'.followUpResponse = followUp.followUpResponse
  /\ (~followUp.didFollowUpActAsReplacement /\ followUp'.didFollowUpActAsReplacement)
       => MarkerChunkNext /\ FollowUpChunk

C19_NoMarkerInReplacement ==
  followUp.isReplacingSummaryRef
    => /\ MarkerEnds(followUp.revisedSummaryAccumulator) = {}
       /\ MarkerEnds(followUp.displayText) = {}

C19_ReplacementNeverHoldsMarker ==
  [](C19_NoMarkerInReplacement) /\ [][C19_MarkerStep]_vars

\* the chunks delivered after the first one that holds the marker
RECURSIVE AfterMarkerChunk(_)
AfterMarkerChunk(chunks) ==
  IF chunks = <<>> THEN <<>>
  ELSE IF MarkerEnds(Head(chunks)) # {} THEN Tail(chunks)
  ELSE AfterMarkerChunk(Tail(chunks))

RECURSIVE MarkerChunk(_)
MarkerChunk(chunks) ==
  IF MarkerEnds(Head(chunks)) # {} THEN Head(chunks)
  ELSE MarkerChunk(Tail(chunks))

\* in replacing mode the replacement text is what followed the first
\* marker of the first chunk that held it, leading whitespace removed,
\* then the later chunks as they came; when not empty it is the summary
C19_ReplacementFollowsFirstMarker ==
  followUp.isReplacingSummaryRef
    => /\ followUp.revisedSummaryAccumulator =
            AfterFirstMarker(MarkerChunk(followUp.delivered))
              \o Flatten(AfterMarkerChunk(followUp.delivered))
       /\ followUp.revisedSummaryAccumulator # <<>>
            => followUp.displayText = followUp.revisedSummaryAccumulator

\* C19 (amended): the first chunk that holds the marker in normal mode
\* switches to replacing and raises the indicator, which no other step
\* raises; the accumulator starts with what follows the first marker of
\* that chunk, leading whitespace removed; the replacement text holds
\* nothing up to and including that first marker, and a marker that
\* arrives again is kept as text.
C19_FirstMarkerStartsReplacement ==
  [](C19_ReplacementFollowsFirstMarker) /\ [][C19_MarkerStep]_vars

\* "[marker] N[marker]B" arrived in one chunk: replacing, and the summary
\* is "N[marker]B"
C19_Witness ==
  /\ followUp.isReplacingSummaryRef
  /\ followUp.didFollowUpActAsReplacement
  /\ Len(followUp.delivered) = 1
  /\ followUp.displayText = <<"N">> \o REPLACE_SUMMARY_COMMAND \o <<"B">>

\* C20: in replacing mode every chunk is appended to the replacement
\* accumulator and shown as the summary, the follow-up response is left
\* unchanged, and the mode stays replacing until the stream is over.
C20_ReplacingStep ==
  followUp.isReplacingSummaryRef
    => /\ (FollowUpChunk \/ FollowUpEnd \/ FollowUpError)
            => /\ followUp'.isReplacingSummaryRef
               /\ followUp'.didFollowUpActAsReplacement
               /\ followUp'.followUpResponse = followUp.followUpResponse
       /\ FollowUpChunk
            => /\ followUp'.revisedSummaryAccumulator =
                    followUp.revisedSummaryAccumulator \o Head(followUp.pending)
               /\ followUp'.displayText = followUp'.revisedSummaryAccumulator

C20_ReplacingUntilStreamEnds == [][C20_ReplacingStep]_vars

\* after "[marker]\nN" the chunk "+" arrived: the summary is "N+" and the
\* follow-up response is still empty
C20_Witness ==
  /\ followUp.isReplacingSummaryRef
  /\ followUp.delivered = <<REPLACE_SUMMARY_COMMAND \o <<"\n", "N">>, <<"+">>>>
  /\ followUp.displayText = <<"N", "+">>
  /\ followUp.followUpResponse = <<>>

\* C21: resetChatSession leaves no live session whatever was there; a
\* sendMessageToChatStream made while no session is live throws "Chat
\* session is not active" and opens no stream, and no session appears
\* without an initializeChatSession; the session initializeChatSession
\* creates holds the history passed to that call and nothing else.
C21_ResetStep ==
  service'.fn = "session:resetChatSession" /\ service' # service
    => chatSessionInstance' = NoSession

C21_SendWithoutSession ==
  \A message \in SessionMessages :
    (chatSessionInstance = NoSession /\ SessionSend(message))
      => /\ service'.output[1].thrown = CHAT_SESSION_NOT_ACTIVE
         /\ ~service'.output[1].streamOpened
         /\ chatSessionInstance' = NoSession

C21_SessionOnlyFromInitialize ==
  (chatSessionInstance = NoSession /\ chatSessionInstance' # NoSession)
    => service'.fn = "session:initializeChatSession"

C21_FreshHistory ==
  (service'.fn = "session:initializeChatSession" /\ service' # service)
    => /\ chatSessionInstance'.live
       /\ chatSessionInstance'.history = service'.input.history

C21_ResetDropsSession ==
  [][C21_ResetStep /\ C21_SendWithoutSession /\ C21_SessionOnlyFromInitialize
       /\ C21_FreshHistory]_vars

\* a send was refused after the session had been created and then reset
C21_Witness ==
  /\ service.fn = "session:sendMessageToChatStream"
  /\ service.output[1].thrown = CHAT_SESSION_NOT_ACTIVE
  /\ chatSessionInstance = NoSession
  /\ createCount >= 2

\* the snapshot of the pending title job holds no user message with text
SnapshotWithoutUserText ==
  /\ titleUpdateQueue # NoJob
  /\ \A i \in 1..Len(titleUpdateQueue.messagesForContext) :
       \/ titleUpdateQueue.messagesForContext[i].sender # "user"
       \/ Trim(titleUpdateQueue.messagesForContext[i].text) = <<>>

\* C22: when the timer of a title job fires and the job's snapshot holds
\* no user message with non-empty text, the job's conversation has the
\* title "New Chat" afterwards, no title request is made and the job is
\* consumed.
C22_EmptySnapshotGivesPlaceholder ==
  [][\A tm \in timers :
       (TimerFires(tm) /\ SnapshotWithoutUserText)
         => /\ titleCalls' = titleCalls
            /\ isTitleLoading' = isTitleLoading
            /\ titleUpdateQueue' = NoJob
            /\ \A k \in 1..Len(allChats') :
                 allChats'[k].id = titleUpdateQueue.id
                   => allChats'[k].title = NEW_CHAT]_vars

\* the job of a first send fired with the welcome message as its snapshot:
\* the conversation holds the user message and is still named "New Chat"
C22_Witness ==
  /\ titleUpdateQueue = NoJob
  /\ timers = {}
  /\ titleCalls = {}
  /\ titleUpdateTimeout # NoTimer
  /\ titleUpdateTimeout[2] = "new"
  /\ \E k \in 1..Len(allChats) :
       /\ allChats[k].id = currentChatId
       /\ allChats[k].title = NEW_CHAT
       /\ HasUserMessage(allChats[k].messages)

\* the aiMessagesSinceLastTitleUpdate of every stored conversation
Counts(chats) ==
  [i \in 1..Len(chats) |-> <<chats[i].id, chats[i].aiMessagesSinceLastTitleUpdate>>]

\* the normal end of turn t adds one to the count of its conversation and
\* to no other, and schedules a title update exactly when the new count is
\* 3 or more and the title is not "New Chat"
C23_EndStep ==
  \A t \in turns :
    (StreamEnd(t) /\ t.chatId \in ChatIds(allChats))
      => LET before == FindChat(allChats, t.chatId)
             after == FindChat(allChats', t.chatId)
         IN /\ after.aiMessagesSinceLastTitleUpdate =
                 before.aiMessagesSinceLastTitleUpdate + 1
            /\ \A k \in 1..Len(allChats) :
                 allChats[k].id # t.chatId =>
                   Counts(allChats')[k] = Counts(allChats)[k]
            /\ IF after.aiMessagesSinceLastTitleUpdate >= 3
                    /\ before.title # NEW_CHAT
               THEN /\ titleUpdateQueue'.id = t.chatId
                    /\ ~titleUpdateQueue'.isNew
                    /\ titleUpdateTimeout' = <<t.id, "end">>
                    /\ \E tm \in timers' : tm.tid = titleUpdateTimeout'
               ELSE UNCHANGED <<titleUpdateQueue, titleUpdateTimeout, timers>>

\* no other step of a turn changes a count, and the commit of a title
\* after the title request sets the count of its conversation to 0
C23_OtherSteps ==
  /\ (\/ \E inputText \in InputTexts : handleSendMessage(inputText)
      \/ \E t \in turns : \/ StreamChunk(t, NextChunk(t.chunks))
                          \/ \E eMessage \in ErrorMessages : StreamError(t, eMessage))
       => Counts(allChats') = Counts(allChats)
  /\ \A call \in titleCalls : \A outcome \in TitleOutcomes :
       TitleResolved(call, outcome)
         => \A k \in 1..Len(allChats') :
              Counts(allChats')[k] =
                IF allChats[k].id = call.chatId THEN <<call.chatId, 0>>
                ELSE Counts(allChats)[k]

\* C23: each normally completed turn adds exactly one to its
\* conversation's aiMessagesSinceLastTitleUpdate; a title update is
\* scheduled every time the new count is at the threshold of 3 (or beyond
\* it) while the title is not "New Chat", and at no other end of a turn;
\* the commit of a generated title resets the count to 0.
C23_CountAndThreshold == [][C23_EndStep /\ C23_OtherSteps]_vars

\* a title was committed (count 0) and the next turn completed: the count
\* is 1 and no title update is pending
C23_Witness ==
  /\ turns = {}
  /\ timers = {}
  /\ titleUpdateQueue = NoJob
  /\ \E k \in 1..Len(allChats) :
       /\ allChats[k].title = <<"X">>
       /\ allChats[k].aiMessagesSinceLastTitleUpdate = 1
       /\ Len(allChats[k].messages) = 4

\* the commit of a title writes the title of its conversation and leaves
\* every stored and every displayed message as it is
C24_CommitStep ==
  \A call \in titleCalls : \A outcome \in TitleOutcomes :
    TitleResolved(call, outcome)
      => /\ StoredMessages(allChats') = StoredMessages(allChats)
         /\ messages' = messages
         /\ \A k \in 1..Len(allChats') :
              allChats'[k].title =
                IF allChats[k].id = call.chatId
                THEN generateChatTitleWithAI(call.messagesForContext, outcome)
                ELSE allChats[k].title

\* the end of a turn stores the finalized message list of its
\* conversation and leaves every title as it is; a chunk changes nothing
\* that is stored
C24_TurnSteps ==
  \A t \in turns :
    /\ StreamEnd(t)
         => /\ Titles(allChats') = Titles(allChats)
            /\ \A k \in 1..Len(allChats') :
                 allChats'[k].id = t.chatId
                   => /\ allChats'[k].messages =
                           t.updatedMessagesWithUser \o <<FinalAiMessage(t)>>
                      /\ ~allChats'[k].messages[Len(allChats'[k].messages)].isStreaming
    /\ StreamChunk(t, NextChunk(t.chunks)) => allChats' = allChats

\* C24: the commit of a title and the finalization of a turn of the same
\* conversation do not lose each other's update, in either order and with
\* chunks in between: the commit changes the title and no message, the
\* finalization changes the message list and no title, and a chunk changes
\* neither.
C24_TitleAndTurnDisjoint == [][C24_CommitStep /\ C24_TurnSteps]_vars

\* a title request was out while a turn of the same conversation ended:
\* the conversation holds the committed title and the four messages of the
\* finalized turn
C24_Witness ==
  /\ titleCalls = {}
  /\ titleUpdateTimeout = <<3, "end">>
  /\ \E k \in 1..Len(allChats) :
       /\ allChats[k].title = <<"X">>
       /\ allChats[k].aiMessagesSinceLastTitleUpdate = 0
       /\ Len(allChats[k].messages) = 4
       /\ allChats[k].messages[4].id = <<"ai", 3>>
       /\ ~allChats[k].messages[4].isStreaming

\* a title without the ellipsis that CleanTitle appends
BeforeEllipsis(title) ==
  IF Len(title) >= 3 /\ SubSeq(title, Len(title) - 2, Len(title)) = <<".", ".", ".">>
  THEN SubSeq(title, 1, Len(title) - 3) ELSE title

\* C25: on a title response with text, the title generateChatTitleWithAI
\* returns neither begins nor ends with a quote character, does not begin
\* with "title:" in any letter case, and has at most 7 words before the
\* ellipsis.
C25_CommittedTitleIsClean ==
  (/\ service.fn = "generateChatTitleWithAI"
   /\ service.input[2].ok
   /\ ~IsBlank(service.input[2].text))
     => LET title == service.output[1]
        IN /\ title # <<>>
           /\ title[1] \notin {"\"", "'"}
           /\ title[Len(title)] \notin {"\"", "'"}
           /\ ~(Len(title) >= 6
                 /\ ToLowerCase(SubSeq(title, 1, 6)) = <<"t", "i", "t", "l", "e", ":">>)
           /\ Len(SplitSpace(BeforeEllipsis(title))) <= 7

\* C26: when the stream of a turn fails, the banner holds the error
\* string, isLoading is false, the stored conversations are as they were
\* before the failure, the turn's conversation still stores the user
\* message of the turn, and a send of a non-blank text is accepted next.
C26_FailedTurnKeepsConversation ==
  [][\A t \in turns : \A eMessage \in ErrorMessages :
       StreamError(t, eMessage)
         => /\ error' = ErrorText(eMessage)
            /\ isLoading' = FALSE
            /\ allChats' = allChats
            /\ \A k \in 1..Len(allChats') :
                 allChats'[k].id = t.chatId
                   => MessagesWithId(allChats'[k].messages, <<"user", t.id>>) # {}
            /\ t \notin turns'
            /\ (~IsBlank(<<"h">>) /\ ~isLoading')]_vars

\* C27: when the stream of a turn ends normally without having delivered
\* any text, the turn's assistant message is no longer streaming and the
\* user is shown a note: the message has a text or the banner holds one,
\* and the turn is over with isLoading false.
C27_EmptyResponseSurfaced ==
  [][\A t \in turns :
       (StreamEnd(t) /\ t.accumulatedRegularText = <<>>)
         => /\ isLoading' = FALSE
            /\ \A i \in MessagesWithId(messages', AiId(t)) :
                 /\ ~messages'[i].isStreaming
                 /\ \/ messages'[i].text # <<>>
                    \/ error' # Null]_vars

\* C28: a user message or a finalized assistant message stored in a
\* conversation keeps its position and its id for as long as the
\* conversation is stored, whatever the step; only the welcome message
\* may go.
C28_StoredMessagesOnlyGrow ==
  [][\A k \in 1..Len(allChats) : \A n \in 1..Len(allChats') :
       allChats'[n].id = allChats[k].id
         => \A i \in 1..Len(allChats[k].messages) :
              (/\ ~IsWelcome(allChats[k].messages[i])
               /\ ~allChats[k].messages[i].isStreaming)
                => /\ i <= Len(allChats'[n].messages)
                   /\ allChats'[n].messages[i].id = allChats[k].messages[i].id]_vars

\* currentChatId names exactly one stored conversation and no two stored
\* conversations have the same id
C29_OneActiveChat ==
  /\ Cardinality({k \in 1..Len(allChats) : allChats[k].id = currentChatId}) = 1
  /\ \A k, n \in 1..Len(allChats) : allChats[k].id = allChats[n].id => k = n

\* deleteChat of the active conversation: the first of the remaining
\* conversations becomes the active one and is displayed, or, when none
\* remains, a new conversation is created and is the only one stored
C29_DeleteStep ==
  \A k \in 1..Len(allChats) :
    (allChats[k].id = currentChatId /\ deleteChat(currentChatId))
      => LET remaining == SelectSeq(allChats, LAMBDA c : c.id # currentChatId)
         IN IF remaining # <<>>
            THEN /\ allChats' = remaining
                 /\ currentChatId' = remaining[1].id
                 /\ messages' = remaining[1].messages
            ELSE /\ Len(allChats') = 1
                 /\ allChats'[1].id = currentChatId'
                 /\ currentChatId' \notin ChatIds(allChats)
                 /\ allChats'[1].title = NEW_CHAT
                 /\ messages' = allChats'[1].messages

\* C29: in every reachable state currentChatId is the id of exactly one
\* conversation of allChats and the ids in allChats are pairwise distinct;
\* deleteChat of the active conversation activates the first remaining
\* conversation, or creates and activates a new one when none remains.
C29_ActiveChatAlwaysStored == [](C29_OneActiveChat) /\ [][C29_DeleteStep]_vars

\* conversations 2 and 3 were started and 3, the active one, was deleted:
\* conversation 2, the first remaining, is active and displayed
C29_Witness ==
  /\ clock = 3
  /\ turns = {}
  /\ currentChatId = 2
  /\ Len(allChats) = 2
  /\ allChats[1].id = 2
  /\ allChats[2].id = 1
  /\ messages = allChats[1].messages
  /\ Len(messages) = 1

\* C30: a change of the selected model or of the thinking budget leaves
\* the active conversation id, the displayed messages and the stored
\* conversations unchanged, whatever is in flight and whatever failed
\* before.
C30_SettingsChangeKeepsConversation ==
  [][(\/ \E model \in AVAILABLE_CHAT_MODELS : setCurrentChatModel(model)
      \/ \E budget \in ThinkingBudgets : setThinkingBudget(budget))
        => /\ currentChatId' = currentChatId
           /\ messages' = messages
           /\ allChats' = allChats]_vars

====
